---- MODULE Spec2Model ----
(***************************************************************************)
(* text2card: the Markdown-to-card engine of src/image_generator.py.       *)
(*                                                                         *)
(* A Python str is a sequence of symbols.  A symbol is a one-character     *)
(* ASCII string, the name "U+XXXX" of one non-ASCII code point (also used  *)
(* for the backtick, U+0060), or one of the lexemes                        *)
(*   SpanRed  = <span style="color:red">    SpanBlue = <span style="color:blue">*)
(*   SpanEnd  = </span>                                                    *)
(*   "&lt;", "&gt;"  (the four characters an escaped '<' or '>' becomes)   *)
(* A lexeme stands for the characters it spells; its width is the sum of   *)
(* their widths.                                                           *)
(***************************************************************************)
EXTENDS Integers, Sequences, FiniteSets, TLC

VARIABLES
    parser,      \* the MarkdownParser instance: the fields reset() assigns
    text,        \* parse(text): the argument
    lines,       \* parse: text.splitlines()
    i,           \* parse: index of the line the main loop examines (0-based)
    segments,    \* parse: the local list of TextSegment being built
    result,      \* what the last parse call returned
    entry,       \* the instance's fields when the current call was entered
    pc,          \* parse: "idle" | "loop" | "done";
                 \* generate_image: "start" | "split" | "title" | "draw" | "saved",
                 \* "blocked" while a request waits for a server's answer
    title_image,      \* generate_image: "None" | "image" | "missing" | "remote"
    title_height,     \* generate_image: the height kept for the title image
    image_pasted,     \* add_title_image: the image was pasted on the background
    requests,         \* the timeouts of the requests.get calls made (0: none)
    is_dark_theme,    \* generate_image: what get_theme_colors chose
    processed_lines,  \* generate_image: the list of ProcessedLine
    content_height,   \* generate_image: what calculate_height returned
    rect_height,      \* generate_image: the height of the card
    start_y,          \* generate_image: current_y when the drawing loop starts
    current_y,        \* generate_image: the drawing cursor
    drawn,            \* generate_image: the drawing calls made, line by line
    download,         \* download_image_with_timeout: a call with what it returned
    server,           \* which API server runs: "app" | "api_server" ("None": neither)
    api_keys,         \* the server's config: API_KEYS
    now,              \* the clock the server reads, in seconds
    files,            \* the upload folder: the files with their modification times
    issued,           \* the image URLs handed out: file name, token, expiry
    pending,          \* the chat request whose image is rendered and not yet answered
    response          \* the request in progress or answered at the present instant,
                      \* with its response

render_vars ==
    <<title_image, title_height, image_pasted, requests, is_dark_theme,
      processed_lines, content_height, rect_height, start_y, current_y, drawn,
      download>>

server_vars == <<server, api_keys, now, files, issued, pending, response>>

engine_vars == <<parser, text, lines, i, segments, result, entry, pc, render_vars>>

vars == <<engine_vars, server_vars>>

----------------------------------------------------------------------------
(* Symbols *)

SpanRed == "<span style=color:red>"
SpanBlue == "<span style=color:blue>"
SpanEnd == "</span>"
Backtick == "U+0060"
Bullet == "U+2022"
FullColon == "U+FF1A"
EmojiGrin == "U+1F600"

Ord(c) ==
    LET
        \* Code points of the non-ASCII symbols (every other symbol is below 128).
        CodePoint ==
            [c0 \in {"U+2022", "U+2014", "U+3001", "U+3002", "U+4E00", "U+4E2D",
                    "U+56FD", "U+5185", "U+8981", "U+95FB", "U+98DE", "U+5929",
                    "U+6587", "U+9898", "U+FF0C", "U+FF1A", "U+1F600", "U+9645",
                    "U+52A8", "U+6001", "U+4E8C", "U+4E09", "U+56DB", "U+4F60",
                    "U+597D", "U+1F1FA", "U+1F1F8"} |->
                CASE c0 = "U+2022" -> 8226    [] c0 = "U+2014" -> 8212
                  [] c0 = "U+3001" -> 12289   [] c0 = "U+3002" -> 12290
                  [] c0 = "U+4E00" -> 19968   [] c0 = "U+4E2D" -> 20013
                  [] c0 = "U+56FD" -> 22269   [] c0 = "U+5185" -> 20869
                  [] c0 = "U+8981" -> 35201   [] c0 = "U+95FB" -> 38395
                  [] c0 = "U+98DE" -> 39134   [] c0 = "U+5929" -> 22825
                  [] c0 = "U+6587" -> 25991   [] c0 = "U+9898" -> 39064
                  [] c0 = "U+FF0C" -> 65292   [] c0 = "U+FF1A" -> 65306
                  [] c0 = "U+1F600" -> 128512 [] c0 = "U+9645" -> 38469
                  [] c0 = "U+52A8" -> 21160   [] c0 = "U+6001" -> 24577
                  [] c0 = "U+4E8C" -> 20108   [] c0 = "U+4E09" -> 19977
                  [] c0 = "U+56DB" -> 22235   [] c0 = "U+4F60" -> 20320
                  [] c0 = "U+597D" -> 22909   [] c0 = "U+1F1FA" -> 127482
                  [] c0 = "U+1F1F8" -> 127480]
    IN
    IF c \in DOMAIN CodePoint THEN CodePoint[c] ELSE 127

IsEmoji(c) == c = EmojiGrin

Whitespace == {" ", "\t", "\n"}
Digits == {"0", "1", "2", "3", "4", "5", "6", "7", "8", "9"}

----------------------------------------------------------------------------
(* str methods *)

Min(S) == CHOOSE x \in S : \A y \in S : x <= y
Max(S) == CHOOSE x \in S : \A y \in S : x >= y

\* s[a:b] of Python, with 1-based inclusive bounds a..b
Slice(s, a, b) == IF a > b THEN <<>> ELSE SubSeq(s, a, b)
From(s, a) == Slice(s, a, Len(s))

StartsWith(s, p) == Len(s) >= Len(p) /\ SubSeq(s, 1, Len(p)) = p
StartsAt(s, k, p) == k >= 1 /\ k + Len(p) - 1 <= Len(s) /\ SubSeq(s, k, k + Len(p) - 1) = p

IsBlank(s) == \A k \in 1..Len(s) : s[k] \in Whitespace

RStrip(s) ==
    IF IsBlank(s) THEN <<>>
    ELSE Slice(s, 1, Max({k \in 1..Len(s) : s[k] \notin Whitespace}))

Strip(s) ==
    LET
        LStrip(s0) ==
            IF IsBlank(s0) THEN <<>>
            ELSE From(s0, Min({k \in 1..Len(s0) : s0[k] \notin Whitespace}))
    IN
    LStrip(RStrip(s))

\* number of leading symbols of s that are in the set C
RECURSIVE LeadCount(_, _)
LeadCount(s, C) ==
    IF s = <<>> \/ s[1] \notin C THEN 0 ELSE 1 + LeadCount(Tail(s), C)

RECURSIVE Concat(_)
Concat(ss) == IF ss = <<>> THEN <<>> ELSE Head(ss) \o Concat(Tail(ss))

\* str.splitlines(): split at every "\n"; no empty last line
RECURSIVE SplitAt(_, _)
SplitAt(s, sep) ==
    IF \A k \in 1..Len(s) : s[k] # sep THEN <<s>>
    ELSE LET k == Min({j \in 1..Len(s) : s[j] = sep})
         IN  <<Slice(s, 1, k - 1)>> \o SplitAt(From(s, k + 1), sep)

SplitLines(s) ==
    IF s = <<>> THEN <<>>
    ELSE LET parts == SplitAt(s, "\n")
         IN  IF parts[Len(parts)] = <<>> THEN Slice(parts, 1, Len(parts) - 1)
             ELSE parts

\* "\n".join(ls)
RECURSIVE JoinLines(_)
JoinLines(ls) ==
    IF ls = <<>> THEN <<>>
    ELSE IF Len(ls) = 1 THEN ls[1]
    ELSE ls[1] \o <<"\n">> \o JoinLines(Tail(ls))

----------------------------------------------------------------------------
(* The compiled patterns of MarkdownParser.__init__ *)

\* first index q >= from where d occurs in s, 0 when there is none
FindFrom(s, d, from) ==
    LET hits == {q \in from..Len(s) : StartsAt(s, q, d)}
    IN  IF hits = {} THEN 0 ELSE Min(hits)

\* pattern.sub(r'\1', s) for a pattern  d(.*?)d  (bold, code, strikethrough)
RECURSIVE DelimSub(_, _, _)
DelimSub(s, d, p) ==
    IF p > Len(s) THEN <<>>
    ELSE LET q == IF StartsAt(s, p, d) THEN FindFrom(s, d, p + Len(d)) ELSE 0
         IN  IF q > 0
             THEN Slice(s, p + Len(d), q - 1) \o DelimSub(s, d, q + Len(d))
             ELSE <<s[p]>> \o DelimSub(s, d, p + 1)

\* bold_pattern  \*\*(.*?)\*\*
bold_search(s) ==
    LET
        DelimSearch(s0, d) ==
            \E p \in 1..Len(s0) : StartsAt(s0, p, d) /\ FindFrom(s0, d, p + Len(d)) > 0
    IN
    DelimSearch(s, <<"*", "*">>)
\* code_pattern  `(.*?)`
code_sub(s) == DelimSub(s, <<Backtick>>, 1)

\* strikethrough_pattern  ~~(.*?)~~
strikethrough_sub(s) == DelimSub(s, <<"~", "~">>, 1)

\* italic_pattern  \*((?!\*).+?)\*|_(.+?)_ : the end of the match that starts
\* at p, 0 when none starts there
ItalicEnd(s, p) ==
    LET star == IF s[p] = "*" /\ p + 1 <= Len(s) /\ s[p + 1] # "*"
                THEN FindFrom(s, <<"*">>, p + 2) ELSE 0
        under == IF s[p] = "_" THEN FindFrom(s, <<"_">>, p + 2) ELSE 0
    IN  IF star > 0 THEN star ELSE under

italic_search(s) == \E p \in 1..Len(s) : ItalicEnd(s, p) > 0

RECURSIVE ItalicSub(_, _)
ItalicSub(s, p) ==
    IF p > Len(s) THEN <<>>
    ELSE LET q == ItalicEnd(s, p)
         IN  IF q > 0 THEN Slice(s, p + 1, q - 1) \o ItalicSub(s, q + 1)
             ELSE <<s[p]>> \o ItalicSub(s, p + 1)

RECURSIVE LinkSub(_, _)
LinkSub(s, p) ==
    LET
        \* link_pattern  \[(.*?)\]\((.+?)\) : <<q, r>> with s[q] = "]" and s[r] = ")"
        \* for the match that starts at p, <<0, 0>> when none starts there
        LinkEnd(s0, p0) ==
            LET qs == {q \in (p0 + 1)..Len(s0) :
                          /\ StartsAt(s0, q, <<"]", "(">>)
                          /\ FindFrom(s0, <<")">>, q + 3) > 0}
            IN  IF s0[p0] = "[" /\ qs # {}
                THEN <<Min(qs), FindFrom(s0, <<")">>, Min(qs) + 3)>>
                ELSE <<0, 0>>
    IN
    IF p > Len(s) THEN <<>>
    ELSE LET e == LinkEnd(s, p)
         IN  IF e[1] > 0 THEN Slice(s, p + 1, e[1] - 1) \o LinkSub(s, e[2] + 1)
             ELSE <<s[p]>> \o LinkSub(s, p + 1)

link_sub(s) == LinkSub(s, 1)

IsStars(s) == s # <<>> /\ \A k \in 1..Len(s) : s[k] = "*"

IsSpanOpen(c) == c \in {SpanRed, SpanBlue}
\* html_color_pattern  <span\s+style=["']color:\s*([^;"']+)[;"'](.*?)>(.*?)</span>
\* with DOTALL: an opening tag and the first closing tag after it.  The place
\* of the first match at or after position from, as <<start, end>>; <<0, 0>>
\* when there is none.
ColorMatchFrom(s, from) ==
    LET ps == {p \in from..Len(s) :
                  IsSpanOpen(s[p]) /\ FindFrom(s, <<SpanEnd>>, p + 1) > 0}
    IN  IF ps = {} THEN <<0, 0>>
        ELSE <<Min(ps), FindFrom(s, <<SpanEnd>>, Min(ps) + 1)>>

html_color_pattern_search(s) == ColorMatchFrom(s, 1)[1] > 0

\* html_color_pattern.finditer(s): the matches from position from on, in order
RECURSIVE ColorMatches(_, _)
ColorMatches(s, from) ==
    LET
        SpanColor(c) == IF c = SpanRed THEN "red" ELSE "blue"
        m == ColorMatchFrom(s, from)
    IN  IF m[1] = 0 THEN <<>>
        ELSE <<[start |-> m[1], end |-> m[2],
                color |-> SpanColor(s[m[1]]),
                content |-> Slice(s, m[1] + 1, m[2] - 1)]>>
             \o ColorMatches(s, m[2] + 1)

----------------------------------------------------------------------------
(* MarkdownParser.process_inline_formats.  The rules run in the order of    *)
(* the code, each on the text the previous one left.                        *)

\* italic, then link, code and strikethrough, on the text t1 left by bold
ItalicAndRest(t1, bold, italic) ==
    LET
        italic_sub(s) == ItalicSub(s, 1)
    IN
    [text |-> strikethrough_sub(code_sub(link_sub(IF italic THEN italic_sub(t1) ELSE t1))),
     is_bold |-> bold,
     is_italic |-> italic]

BoldAndRest(s, bold) ==
    LET
        bold_sub(s0) == DelimSub(s0, <<"*", "*">>, 1)
    IN
    IF bold THEN ItalicAndRest(bold_sub(s), TRUE, italic_search(bold_sub(s)))
    ELSE ItalicAndRest(s, FALSE, italic_search(s))

\* hm: header_pattern.match(text), lm: list_star_pattern.match(text)
FormatsGiven(s, hm, lm) ==
    IF hm[1] THEN [text |-> hm[2], is_bold |-> FALSE, is_italic |-> FALSE]
    ELSE IF lm[1]
    THEN [text |-> <<Bullet, " ">> \o lm[2], is_bold |-> FALSE, is_italic |-> FALSE]
    ELSE BoldAndRest(s, bold_search(s))

process_inline_formats(s) ==
    LET
        \* header_pattern  ^(\*+) (.+?)(\*+)$  : <<matched, group(2)>>
        header_pattern_match(s0) ==
            LET k == LeadCount(s0, {"*"})
                t == From(s0, k + 2)
                ns == {n \in 1..(Len(t) - 1) : IsStars(From(t, n + 1))}
            IN  IF k >= 1 /\ k + 1 <= Len(s0) /\ s0[k + 1] = " " /\ ns # {}
                THEN <<TRUE, Slice(t, 1, Min(ns))>>
                ELSE <<FALSE, <<>>>>
        \* list_star_pattern  ^\* (.+)$  : <<matched, group(1)>>
        list_star_pattern_match(s0) ==
            IF StartsWith(s0, <<"*", " ">>) /\ Len(s0) >= 3
            THEN <<TRUE, From(s0, 3)>>
            ELSE <<FALSE, <<>>>>
    IN
    FormatsGiven(s, header_pattern_match(s), list_star_pattern_match(s))

----------------------------------------------------------------------------
(* TextStyle, TextSegment *)

TextStyle ==
    [font_name |-> "regular", font_size |-> 30, indent |-> 0,
     line_spacing |-> 15, is_title |-> FALSE, is_category |-> FALSE,
     is_code |-> FALSE, is_quote |-> FALSE, alignment |-> "left",
     is_dark_theme |-> FALSE, is_list_item |-> FALSE, text_color |-> "None",
     is_bold |-> FALSE, is_italic |-> FALSE]

FontName(is_bold) == IF is_bold THEN "bold" ELSE "regular"

\* TextSegment(text, style); original_segments is the attribute the parser
\* attaches to a composite line (has_original_segments: hasattr)
TextSegment(t, style) ==
    [text |-> t, style |-> style,
     has_original_segments |-> FALSE, original_segments |-> <<>>]

Composite(t, style, subs) ==
    [text |-> t, style |-> style,
     has_original_segments |-> TRUE, original_segments |-> subs]

RECURSIVE TextsOf(_)
TextsOf(segs) == IF segs = <<>> THEN <<>> ELSE <<Head(segs).text>> \o TextsOf(Tail(segs))

\* a segment whose font and flags come from process_inline_formats
Formatted(f, base) ==
    TextSegment(f.text,
        [base EXCEPT !.font_name = FontName(f.is_bold),
                     !.is_bold = f.is_bold, !.is_italic = f.is_italic])

----------------------------------------------------------------------------
(* The "collect the colour parts" loop that parse and parse_line repeat:    *)
(* for each match the text before it (if not blank), then the stripped      *)
(* content of the span; after the last match the remaining text (if not     *)
(* blank).  Each piece goes through process_inline_formats and becomes a    *)
(* part (processed text, colour or None, format styles).                    *)

RECURSIVE Pieces(_, _, _)
Pieces(s, ms, last_end) ==
    LET
        Piece(raw, color) == [raw |-> raw, color |-> color]
    IN
    IF ms = <<>>
    THEN IF last_end < Len(s) /\ ~IsBlank(From(s, last_end + 1))
         THEN <<Piece(From(s, last_end + 1), "None")>> ELSE <<>>
    ELSE (IF /\ Head(ms).start - 1 > last_end
             /\ ~IsBlank(Slice(s, last_end + 1, Head(ms).start - 1))
          THEN <<Piece(Slice(s, last_end + 1, Head(ms).start - 1), "None")>>
          ELSE <<>>)
         \o <<Piece(Strip(Head(ms).content), Head(ms).color)>>
         \o Pieces(s, Tail(ms), Head(ms).end)

RECURSIVE Parts(_)
Parts(pieces) ==
    LET
        PartOf(f, color) ==
            [text |-> f.text, color |-> color, is_bold |-> f.is_bold, is_italic |-> f.is_italic]
    IN
    IF pieces = <<>> THEN <<>>
    ELSE <<PartOf(process_inline_formats(Head(pieces).raw), Head(pieces).color)>>
         \o Parts(Tail(pieces))

text_parts(s) == Parts(Pieces(s, ColorMatches(s, 1), 0))

RECURSIVE PartTexts(_)
PartTexts(ps) == IF ps = <<>> THEN <<>> ELSE Head(ps).text \o PartTexts(Tail(ps))

\* one TextSegment per part, with the style the caller derives from the part
RECURSIVE PartSegments(_, _)
PartSegments(ps, base) ==
    IF ps = <<>> THEN <<>>
    ELSE <<TextSegment(Head(ps).text,
              [base EXCEPT !.font_name = FontName(Head(ps).is_bold),
                           !.text_color = Head(ps).color,
                           !.is_bold = Head(ps).is_bold,
                           !.is_italic = Head(ps).is_italic])>>
         \o PartSegments(Tail(ps), base)

----------------------------------------------------------------------------
(* The regular expressions of parse_line *)

\* \s+(.+)$ applied to rest: <<matched, group>>
AfterSpaces(rest) ==
    LET w == LeadCount(rest, Whitespace)
    IN  IF w >= 1 /\ Len(rest) > w THEN <<TRUE, From(rest, w + 1)>>
        ELSE IF w >= 2 THEN <<TRUE, <<rest[w]>>>>
        ELSE <<FALSE, <<>>>>

\* ^(\d+)\.\s+(.+)$ : <<matched, number, content>>
number_match(s) ==
    LET d == LeadCount(s, Digits)
        a == AfterSpaces(From(s, d + 2))
    IN  IF d >= 1 /\ d + 1 <= Len(s) /\ s[d + 1] = "." /\ a[1]
        THEN <<TRUE, Slice(s, 1, d), a[2]>>
        ELSE <<FALSE, <<>>, <<>>>>

\* ^(\s*)(\*|\-|\+)\s+(.+)$ : <<matched, len(group(1)), group(3)>>
list_match(s) ==
    LET n == LeadCount(s, Whitespace)
        a == AfterSpaces(From(s, n + 2))
    IN  IF n + 1 <= Len(s) /\ s[n + 1] \in {"*", "-", "+"} /\ a[1]
        THEN <<TRUE, n, a[2]>>
        ELSE <<FALSE, 0, <<>>>>

\* ^\*+\s*(.+?)\s*\*+$ : <<matched, group(1)>>.  The engine tries the leading
\* stars longest first, then the spaces longest first, then the group
\* shortest first.
title_header_match(s) ==
    LET
        \* \s*\*+$
        IsSpacesThenStars(r) == IsStars(From(r, LeadCount(r, Whitespace) + 1))
        K == LeadCount(s, {"*"})
        cand == {c \in (1..K) \X (0..Len(s)) \X (1..Len(s)) :
                    /\ c[2] <= LeadCount(From(s, c[1] + 1), Whitespace)
                    /\ c[1] + c[2] + c[3] < Len(s)
                    /\ IsSpacesThenStars(From(s, c[1] + c[2] + c[3] + 1))}
        k == Max({c[1] : c \in cand})
        w == Max({c[2] : c \in {x \in cand : x[1] = k}})
        n == Min({c[3] : c \in {x \in cand : x[1] = k /\ x[2] = w}})
    IN  IF cand = {} THEN <<FALSE, <<>>>>
        ELSE <<TRUE, Slice(s, k + w + 1, k + w + n)>>

is_category_title(s) ==
    LET
        CategoryTitles ==
            {<<"U+56FD", "U+5185", "U+8981", "U+95FB">>,
             <<"U+56FD", "U+9645", "U+52A8", "U+6001">>}
    IN
    Strip(s) \in CategoryTitles

\* re.match(r'(\d+)\.\s*(.+)', text): (number, content), ('', text) when no match
split_number_and_content(s) ==
    LET d == LeadCount(s, Digits)
        rest == From(s, d + 2)
        w == LeadCount(rest, Whitespace)
    IN  IF d >= 1 /\ d + 1 <= Len(s) /\ s[d + 1] = "." /\ Len(rest) >= 1
        THEN <<Slice(s, 1, d),
               IF Len(rest) > w THEN From(rest, w + 1) ELSE <<rest[w]>>>>
        ELSE <<<<>>, s>>

----------------------------------------------------------------------------
(* MarkdownParser.parse_line, branch by branch.  Each branch yields the     *)
(* list of segments the line becomes.                                       *)

SectionIndent(p) ==
    LET
        \* truthiness of self.current_section (None and '' are false)
        SectionSet(p0) == ~p0.current_section.is_none /\ p0.current_section.value # <<>>
    IN
    IF SectionSet(p) THEN 40 ELSE 0

CodeStyle ==
    [TextStyle EXCEPT !.font_name = "regular", !.indent = 40,
                      !.line_spacing = 10, !.is_code = TRUE]

BoldItemStyle ==
    [TextStyle EXCEPT !.font_name = "bold", !.indent = 0, !.line_spacing = 15,
                      !.is_list_item = TRUE, !.is_bold = TRUE]

\* OrderedColorItem had the combined text been built from the parts alone
OrderedColorItemWithoutNumber(prefix, parts) ==
    <<Composite(PartTexts(parts), BoldItemStyle,
          <<TextSegment(prefix,
                [TextStyle EXCEPT !.font_name = "bold", !.line_spacing = 15,
                                  !.is_bold = TRUE, !.is_list_item = TRUE])>>
          \o PartSegments(parts,
                [TextStyle EXCEPT !.line_spacing = 15, !.is_list_item = TRUE]))>>

\* "N. content" with colour spans: the number, then one sub-segment per part
OrderedColorItem(prefix, parts) ==
    <<Composite(prefix \o PartTexts(parts), BoldItemStyle,
          <<TextSegment(prefix,
                [TextStyle EXCEPT !.font_name = "bold", !.line_spacing = 15,
                                  !.is_bold = TRUE, !.is_list_item = TRUE])>>
          \o PartSegments(parts,
                [TextStyle EXCEPT !.line_spacing = 15, !.is_list_item = TRUE]))>>

\* "N. content" lines (number_match)
OrderedItem(number, content) ==
    IF html_color_pattern_search(content)
    THEN OrderedColorItem(number \o <<".", " ">>, text_parts(content))
    ELSE <<TextSegment(number \o <<".", " ">> \o process_inline_formats(content).text,
               BoldItemStyle)>>

Heading2Text(t) == process_inline_formats(Strip(From(t, 4))).text

TaskPrefix(is_task, is_checked) ==
    IF is_task THEN (IF is_checked THEN <<"[", "x", "]", " ">> ELSE <<"[", " ", "]", " ">>)
    ELSE <<Bullet, " ">>

ItemStyle(indent_level) ==
    [TextStyle EXCEPT !.indent = indent_level, !.line_spacing = 15,
                      !.is_list_item = TRUE]

\* PlainListItem had a task been given the bullet of the other list items
PlainListItemWithBullet(indent_level, is_task, is_checked, f) ==
    IF is_task
    THEN <<TextSegment(<<Bullet, " ">> \o TaskPrefix(TRUE, is_checked) \o f.text,
               [ItemStyle(indent_level) EXCEPT
                   !.font_name = "bold",
                   !.text_color = IF is_checked THEN "#22AA22" ELSE "#777777",
                   !.is_bold = TRUE])>>
    ELSE <<Formatted([f EXCEPT !.text = <<Bullet, " ">> \o f.text],
               ItemStyle(indent_level))>>

\* a list item without colour spans; f = process_inline_formats(list_content)
PlainListItem(indent_level, is_task, is_checked, f) ==
    IF is_task
    THEN <<TextSegment(TaskPrefix(TRUE, is_checked) \o f.text,
               [ItemStyle(indent_level) EXCEPT
                   !.font_name = "bold",
                   !.text_color = IF is_checked THEN "#22AA22" ELSE "#777777",
                   !.is_bold = TRUE])>>
    ELSE <<Formatted([f EXCEPT !.text = <<Bullet, " ">> \o f.text],
               ItemStyle(indent_level))>>

ListItemBody(indent_level, is_task, is_checked, list_content) ==
    LET
        \* a list item with colour spans: merged when there are several segments
        ColorListItem(indent_level0, color_segments) ==
            IF Len(color_segments) > 1
            THEN <<Composite(Concat(TextsOf(color_segments)),
                       [ItemStyle(indent_level0) EXCEPT !.font_name = "regular"],
                       color_segments)>>
            ELSE color_segments
        \* the list marker goes in front of the first segment created (marker_added)
        WithMarker(segs, prefix) ==
            IF segs = <<>> THEN <<>>
            ELSE <<[segs[1] EXCEPT !.text = prefix \o segs[1].text]>> \o Tail(segs)
    IN
    IF html_color_pattern_search(list_content)
    THEN ColorListItem(indent_level,
             WithMarker(PartSegments(text_parts(list_content), ItemStyle(indent_level)),
                        TaskPrefix(is_task, is_checked)))
    ELSE PlainListItem(indent_level, is_task, is_checked,
                       process_inline_formats(list_content))

\* unordered and task list items; lm = list_match(text)
ListItem(lm) ==
    LET
        \* ^\[([ xX])\]\s+(.+)$ : <<matched, group(1), group(2)>>
        task_match(s) ==
            LET a == AfterSpaces(From(s, 4))
            IN  IF Len(s) >= 3 /\ s[1] = "[" /\ s[2] \in {" ", "x", "X"} /\ s[3] = "]" /\ a[1]
                THEN <<TRUE, s[2], a[2]>>
                ELSE <<FALSE, " ", <<>>>>
        \* tm = task_match(stripped), stripped = list_match.group(3).strip()
        ListItemTask(indent_level, stripped, tm) ==
            ListItemBody(indent_level, tm[1], tm[1] /\ tm[2] \in {"x", "X"},
                         IF tm[1] THEN Strip(tm[3]) ELSE stripped)
    IN
    ListItemTask(40 + lm[2] * 8, Strip(lm[3]), task_match(Strip(lm[3])))

ColorLine(t, p) ==
    LET
        \* a plain line with colour spans; segs: one segment per part
        ColorLineOf(segs, indent) ==
            IF segs = <<>> THEN <<>>
            ELSE IF Len(segs) = 1 THEN segs
            ELSE <<Composite(Concat(TextsOf(segs)),
                       [TextStyle EXCEPT !.font_name = "regular", !.indent = indent,
                                         !.line_spacing = 15],
                       segs)>>
    IN
    ColorLineOf(PartSegments(text_parts(t),
                    [TextStyle EXCEPT !.indent = SectionIndent(p), !.line_spacing = 15]),
                SectionIndent(p))

\* *title* and **title** lines
StarTitle(title_text) ==
    LET
        SectionPrefixes ==
            {<<"U+4E00", "U+3001">>, <<"U+4E8C", "U+3001">>,
             <<"U+4E09", "U+3001">>, <<"U+56DB", "U+3001">>}
    IN
    <<TextSegment(title_text,
        IF \E pre \in SectionPrefixes : StartsWith(title_text, pre)
        THEN [TextStyle EXCEPT !.font_name = "bold", !.font_size = 38, !.is_title = TRUE,
                               !.line_spacing = 25, !.indent = 0, !.is_bold = TRUE]
        ELSE [TextStyle EXCEPT !.font_name = "bold", !.font_size = 35, !.is_title = TRUE,
                               !.line_spacing = 20, !.indent = 0, !.is_bold = TRUE])>>

\* "N.Title<colon>Body" news entries (split_number_and_content)
NewsEntry(number, content) ==
    LET
        \* text.split(FullColon, 1)
        split_title_and_content(s) ==
            LET k == FindFrom(s, <<FullColon>>, 1)
            IN  IF k > 0 THEN <<Slice(s, 1, k), Strip(From(s, k + 1))>>
                ELSE <<s, <<>>>>
        process_title_marks(s) == process_inline_formats(s).text
        \* a news entry with colour spans
        NewsColorEntry(prefix, parts) ==
            LET
                NewsItemStyle ==
                    [TextStyle EXCEPT !.font_name = "bold", !.indent = 0, !.line_spacing = 15,
                                      !.is_list_item = TRUE]
            IN
            <<Composite(prefix \o PartTexts(parts), NewsItemStyle,
                  <<TextSegment(prefix, [NewsItemStyle EXCEPT !.is_bold = TRUE])>>
                  \o PartSegments(parts, NewsItemStyle))>>
        \* the bold title run and, when there is a body, the body run
        NewsTitleAndBody(prefix, title, body) ==
            <<TextSegment(prefix \o title,
                  [TextStyle EXCEPT !.font_name = "bold", !.indent = 0, !.is_title = TRUE,
                                    !.line_spacing = IF body # <<>> THEN 15 ELSE 20,
                                    !.is_bold = TRUE])>>
            \o (IF body # <<>>
                THEN <<Formatted(process_inline_formats(body),
                           [TextStyle EXCEPT !.indent = 40, !.line_spacing = 20])>>
                ELSE <<>>)
        NewsSplit(prefix, tb) == NewsTitleAndBody(prefix, tb[1], tb[2])
    IN
    IF html_color_pattern_search(content)
    THEN NewsColorEntry(number \o <<".", " ">>, text_parts(content))
    ELSE NewsSplit(number \o <<".", " ">>,
                   split_title_and_content(process_title_marks(content)))

\* parse_line(text) on the parser p: the segments returned
parse_line(t, p) ==
    LET
        Heading1(t0) ==
            <<TextSegment(Strip(From(t0, 3)),
                [TextStyle EXCEPT !.font_name = "bold", !.font_size = 40, !.is_title = TRUE,
                                  !.indent = 0, !.is_bold = TRUE])>>
        Heading2(t0) ==
            <<TextSegment(Heading2Text(t0),
                [TextStyle EXCEPT !.font_name = "bold", !.font_size = 35, !.is_title = TRUE,
                                  !.line_spacing = 25, !.indent = 0, !.is_bold = TRUE])>>
        Heading3(t0) ==
            <<TextSegment(process_inline_formats(Strip(From(t0, 5))).text,
                [TextStyle EXCEPT !.font_name = "bold", !.font_size = 32, !.is_title = TRUE,
                                  !.line_spacing = 20, !.indent = 0, !.is_bold = TRUE])>>
        CategoryLine(t0) ==
            <<TextSegment(Strip(t0),
                [TextStyle EXCEPT !.font_name = "bold", !.font_size = 35, !.is_category = TRUE,
                                  !.line_spacing = 25, !.indent = 0, !.is_bold = TRUE])>>
        EmojiTitle(t0) ==
            <<TextSegment(process_inline_formats(Strip(t0)).text,
                [TextStyle EXCEPT !.font_name = "bold", !.font_size = 40, !.is_title = TRUE,
                                  !.line_spacing = 25, !.indent = 0, !.is_bold = TRUE])>>
        \* lines that start with a dash, and plain text
        InlineLine(t0, indent) ==
            <<Formatted(process_inline_formats(Strip(t0)),
                  [TextStyle EXCEPT !.indent = indent, !.line_spacing = 15])>>
    IN
    IF IsBlank(t) THEN <<TextSegment(<<>>, TextStyle)>>
    ELSE IF p.in_code_block THEN <<TextSegment(t, CodeStyle)>>
    ELSE IF number_match(t)[1] THEN OrderedItem(number_match(t)[2], number_match(t)[3])
    ELSE IF StartsWith(Strip(t), <<"#", " ">>) THEN Heading1(t)
    ELSE IF StartsWith(Strip(t), <<"#", "#", " ">>) THEN Heading2(t)
    ELSE IF StartsWith(Strip(t), <<"#", "#", "#", " ">>) THEN Heading3(t)
    ELSE IF list_match(t)[1] THEN ListItem(list_match(t))
    ELSE IF html_color_pattern_search(t) THEN ColorLine(t, p)
    ELSE IF title_header_match(t)[1] THEN StarTitle(title_header_match(t)[2])
    ELSE IF is_category_title(t) THEN CategoryLine(t)
    ELSE IF IsEmoji(t[1]) THEN EmojiTitle(t)
    ELSE IF split_number_and_content(t)[1] # <<>>
    THEN NewsEntry(split_number_and_content(t)[1], split_number_and_content(t)[2])
    ELSE IF StartsWith(Strip(t), <<"-">>) THEN InlineLine(t, 40)
    ELSE InlineLine(t, SectionIndent(p))

----------------------------------------------------------------------------
(* MarkdownParser: __init__, reset, parse *)

Fence == <<Backtick, Backtick, Backtick>>

RECURSIVE EscapeHtml(_)
EscapeHtml(s) ==
    LET
        \* code_text.replace('<', '&lt;').replace('>', '&gt;'), symbol by symbol
        EscapeSymbol(c) ==
            CASE c = "<" -> <<"&lt;">>
              [] c = ">" -> <<"&gt;">>
              [] c = SpanRed -> <<"&lt;", "span style=color:red", "&gt;">>
              [] c = SpanBlue -> <<"&lt;", "span style=color:blue", "&gt;">>
              [] c = SpanEnd -> <<"&lt;", "/span", "&gt;">>
              [] OTHER -> <<c>>
    IN
    IF s = <<>> THEN <<>> ELSE EscapeSymbol(Head(s)) \o EscapeHtml(Tail(s))

\* the state of a new instance: __init__ calls reset()
NewParser ==
    [segments |-> <<>>,
     current_section |-> [is_none |-> TRUE, value |-> <<>>],
     in_code_block |-> FALSE,
     in_quote_block |-> FALSE,
     quote_indent |-> 0,
     current_quote_group |-> 0]

\* reset() had it left the fence flag and the section as they were
resetKeepingBlockState(p) ==
    [segments |-> <<>>,
     current_section |-> p.current_section,
     in_code_block |-> p.in_code_block,
     in_quote_block |-> FALSE,
     quote_indent |-> 0,
     current_quote_group |-> 0]

\* reset(): every field is assigned, whatever the instance held
reset(p) ==
    [segments |-> <<>>,
     current_section |-> [is_none |-> TRUE, value |-> <<>>],
     in_code_block |-> FALSE,
     in_quote_block |-> FALSE,
     quote_indent |-> 0,
     current_quote_group |-> 0]

\* any(l.strip() for l in ls[k:]), k 0-based
HasContentFrom(ls, k) == \E j \in (k + 1)..Len(ls) : ~IsBlank(ls[j])

\* the loop  while quote_content.startswith('> ')
RECURSIVE QuoteLevel(_)
QuoteLevel(s) == IF StartsWith(s, <<">", " ">>) THEN 1 + QuoteLevel(From(s, 3)) ELSE 0

\* what one iteration of the main loop leaves
Iteration(p, k, segs) == [parser |-> p, i |-> k, segments |-> segs]

\* CodeBlock had the interior lines been stripped before they are joined
CodeBlockStripped(p, ls, k, segs, stop) ==
    Iteration([p EXCEPT !.in_code_block = (stop > Len(ls))],
              stop,
              segs \o <<TextSegment(EscapeHtml(Strip(JoinLines(Slice(ls, k + 2, stop - 1)))),
                                    CodeStyle)>>)

\* CodeBlock had in_code_block been left True after a closed block
CodeBlockLeftOpen(p, ls, k, segs, stop) ==
    Iteration([p EXCEPT !.in_code_block = TRUE],
              stop,
              segs \o <<TextSegment(EscapeHtml(JoinLines(Slice(ls, k + 2, stop - 1))),
                                    CodeStyle)>>)

\* the code block that opens at line k (0-based); stop: the 1-based index of
\* the closing fence, Len(ls) + 1 when there is none
CodeBlock(p, ls, k, segs, stop) ==
    Iteration([p EXCEPT !.in_code_block = (stop > Len(ls))],
              stop,
              segs \o <<TextSegment(EscapeHtml(JoinLines(Slice(ls, k + 2, stop - 1))),
                                    CodeStyle)>>)

\* one iteration of the main loop of parse, on a fence line
FenceIteration(p, ls, k, segs) ==
    LET
        ClosingFences(ls0, k0) == {j \in (k0 + 2)..Len(ls0) : StartsWith(ls0[j], Fence)}
    IN
    IF ~p.in_code_block
    THEN CodeBlock(p, ls, k, segs,
                   IF ClosingFences(ls, k) # {} THEN Min(ClosingFences(ls, k))
                   ELSE Len(ls) + 1)
    ELSE Iteration([p EXCEPT !.in_code_block = FALSE], k + 1, segs)

\* the segments of a quote line whose content after the markers is quote_content
QuoteSegments(quote_content, q) ==
    LET
        \* a quote line with colour spans
        ColorQuote(parts, q0) ==
            IF parts = <<>> THEN <<>>
            ELSE IF Len(parts) = 1 /\ parts[1].color = "None" THEN PartSegments(parts, q0)
            ELSE <<Composite(PartTexts(parts), q0, PartSegments(parts, q0))>>
    IN
    IF IsBlank(quote_content)
    THEN <<TextSegment(<<>>, [q EXCEPT !.line_spacing = 8])>>
    ELSE IF html_color_pattern_search(Strip(quote_content))
    THEN ColorQuote(text_parts(Strip(quote_content)), q)
    ELSE <<Formatted(process_inline_formats(Strip(quote_content)), q)>>

\* one iteration on a quote line
QuoteIteration(p, line, k, segs) ==
    LET
        QuoteStyle(quote_indent) ==
            [TextStyle EXCEPT !.indent = 40 + quote_indent, !.line_spacing = 15,
                              !.is_quote = TRUE]
    IN
    Iteration([p EXCEPT !.in_quote_block = TRUE,
                        !.quote_indent = QuoteLevel(line) * 20],
              k + 1,
              segs \o QuoteSegments(From(line, 2 * QuoteLevel(line) + 1),
                                    QuoteStyle(QuoteLevel(line) * 20)))

NextIsListItem(ls, k) ==
    /\ k + 1 < Len(ls)
    /\ \E pre \in {<<"*">>, <<"-">>, <<"+">>, <<"1", ".">>, <<"2", ".">>, <<"3", ".">>} :
           StartsWith(Strip(ls[k + 2]), pre)

Spacer(line_spacing) == TextSegment(<<>>, [TextStyle EXCEPT !.line_spacing = line_spacing])

\* BlankIteration had every empty line been given a spacer
BlankIterationAlways(p, ls, k, segs) ==
    Iteration(p, k + 1,
        segs \o <<Spacer(IF segs # <<>> /\ segs[Len(segs)].style.is_title
                         THEN 20 ELSE 15)>>)

\* an empty line: a spacer only when a later line has content
BlankIteration(p, ls, k, segs) ==
    Iteration(p, k + 1,
        IF HasContentFrom(ls, k + 1)
        THEN segs \o <<Spacer(IF segs # <<>> /\ segs[Len(segs)].style.is_title
                              THEN 20 ELSE 15)>>
        ELSE segs)

\* LineIteration had the spacer after a line not depended on later content
LineIterationSpacerAlways(p, ls, k, segs, line_segments) ==
    Iteration(p, k + 1,
        segs \o line_segments \o
        (IF ~(/\ line_segments # <<>>
              /\ line_segments[Len(line_segments)].style.is_list_item
              /\ NextIsListItem(ls, k))
         THEN <<Spacer(IF line_segments # <<>>
                       THEN line_segments[Len(line_segments)].style.line_spacing
                       ELSE TextStyle.line_spacing)>>
         ELSE <<>>))

\* a regular line; line_segments = parse_line(line)
LineIteration(p, ls, k, segs, line_segments) ==
    Iteration(p, k + 1,
        segs \o line_segments \o
        (IF /\ k < Len(ls) - 1
            /\ HasContentFrom(ls, k + 1)
            /\ ~(/\ line_segments # <<>>
                 /\ line_segments[Len(line_segments)].style.is_list_item
                 /\ NextIsListItem(ls, k))
         THEN <<Spacer(IF line_segments # <<>>
                       THEN line_segments[Len(line_segments)].style.line_spacing
                       ELSE TextStyle.line_spacing)>>
         ELSE <<>>))

\* one iteration on a line that is neither a fence nor a quote; p1: the
\* parser once the quote state is left
PlainIteration(p1, ls, line, k, segs) ==
    LET
        \* the assignment parse_line makes to self.current_section (a ## heading)
        SectionAfterLine(t, p) ==
            IF /\ ~IsBlank(t) /\ ~p.in_code_block /\ ~number_match(t)[1]
               /\ ~StartsWith(Strip(t), <<"#", " ">>)
               /\ StartsWith(Strip(t), <<"#", "#", " ">>)
            THEN [is_none |-> FALSE, value |-> Heading2Text(t)]
            ELSE p.current_section
    IN
    IF line = <<>> THEN BlankIteration(p1, ls, k, segs)
    ELSE LineIteration([p1 EXCEPT !.current_section = SectionAfterLine(line, p1)],
                       ls, k, segs, parse_line(line, p1))

\* the iteration on the line  lines[k].rstrip()
IterationOn(p, ls, line, k, segs) ==
    IF StartsWith(line, Fence) THEN FenceIteration(p, ls, k, segs)
    ELSE IF StartsWith(line, <<">", " ">>) \/ (line = <<">">> /\ ~p.in_code_block)
    THEN QuoteIteration(p, line, k, segs)
    ELSE PlainIteration([p EXCEPT !.in_quote_block = FALSE, !.quote_indent = 0],
                        ls, line, k, segs)

\* one iteration of  while i < len(lines)  (k is i, 0-based)
ParseIteration(p, ls, k, segs) == IterationOn(p, ls, RStrip(ls[k + 1]), k, segs)

Signature ==
    LET
        \* config.SIGNATURE_TEXT is not an attribute of config.Config: the except
        \* branch appends the default signature
        SignatureText == <<"U+2014", "B", "y", " ", "U+98DE", "U+5929">>
    IN
    TextSegment(SignatureText, [TextStyle EXCEPT !.alignment = "right"])

----------------------------------------------------------------------------
(* FontManager and the glyph boxes PIL reports.  The renderer reads a text  *)
(* character by character, so a lexeme is first spelled out.                *)

\* the characters of a str
RECURSIVE Chars(_)
Chars(s) ==
    LET
        Spelling(c) ==
            CASE c = SpanRed ->
                   <<"<", "s", "p", "a", "n", " ", "s", "t", "y", "l", "e", "=", "\"",
                     "c", "o", "l", "o", "r", ":", "r", "e", "d", "\"", ">">>
              [] c = SpanBlue ->
                   <<"<", "s", "p", "a", "n", " ", "s", "t", "y", "l", "e", "=", "\"",
                     "c", "o", "l", "o", "r", ":", "b", "l", "u", "e", "\"", ">">>
              [] c = SpanEnd -> <<"<", "/", "s", "p", "a", "n", ">">>
              [] c = "&lt;" -> <<"&", "l", "t", ";">>
              [] c = "&gt;" -> <<"&", "g", "t", ";">>
              [] c = "span style=color:red" ->
                   <<"s", "p", "a", "n", " ", "s", "t", "y", "l", "e", "=", "\"",
                     "c", "o", "l", "o", "r", ":", "r", "e", "d", "\"">>
              [] c = "span style=color:blue" ->
                   <<"s", "p", "a", "n", " ", "s", "t", "y", "l", "e", "=", "\"",
                     "c", "o", "l", "o", "r", ":", "b", "l", "u", "e", "\"">>
              [] c = "/span" -> <<"/", "s", "p", "a", "n">>
              [] OTHER -> <<c>>
    IN
    IF s = <<>> THEN <<>> ELSE Spelling(Head(s)) \o Chars(Tail(s))

\* FontManager.get_font(style): <<base name, size>>
get_font(style) ==
    IF style.font_name = "emoji" THEN <<"emoji", 30>>
    ELSE <<IF style.is_bold \/ style.font_name = "bold" \/ style.is_title
              \/ style.is_category
           THEN "bold" ELSE "regular",
           style.font_size>>

\* the font a character is measured and drawn with
FontFor(c, font) ==
    LET
        EmojiFont == <<"emoji", 30>>
    IN
    IF IsEmoji(c) THEN EmojiFont ELSE font

\* textbbox(char)[2] - [0]: an ideograph or full-width sign is as wide as
\* the font size, any other character half as wide
BoxWidth(c, font) == IF Ord(c) > 11904 THEN font[2] ELSE font[2] \div 2

\* re.sub(r'<[^>]*?>', '', text) on characters
RECURSIVE WithoutTags(_)
WithoutTags(s) ==
    IF s = <<>> THEN <<>>
    ELSE IF Head(s) = "<" /\ FindFrom(s, <<">">>, 2) # 0
    THEN WithoutTags(From(s, FindFrom(s, <<">">>, 2) + 1))
    ELSE <<Head(s)>> \o WithoutTags(Tail(s))

RECURSIVE TotalWidth(_, _)
TotalWidth(s, font) ==
    IF s = <<>> THEN 0
    ELSE BoxWidth(Head(s), FontFor(Head(s), font)) + TotalWidth(Tail(s), font)

RECURSIVE MaxHeight(_, _)
MaxHeight(s, font) ==
    LET
        \* textbbox(char)[3] - [1]: nothing for white space, the font size for an
        \* ideograph, three quarters of it otherwise
        BoxHeight(c, font0) ==
            IF c \in Whitespace THEN 0
            ELSE IF Ord(c) > 11904 THEN font0[2]
            ELSE (font0[2] * 3) \div 4
    IN
    IF s = <<>> THEN 0
    ELSE Max({BoxHeight(Head(s), FontFor(Head(s), font)), MaxHeight(Tail(s), font)})

measure_text(s, font) ==
    LET
        \* measure_text(text, font, emoji_font): <<total_width, max_height>>
        Measured(visible, font0) == <<TotalWidth(visible, font0), MaxHeight(visible, font0)>>
    IN
    Measured(WithoutTags(s), font)

----------------------------------------------------------------------------
(* TextRenderer.split_text_to_lines *)

ProcessedLine(t, style, height) ==
    [text |-> t, style |-> style, height |-> height, line_count |-> 1,
     has_source_segment |-> FALSE, source_segments |-> <<>>]

Flushed(current_word) == IF current_word # <<>> THEN <<current_word>> ELSE <<>>

\* the word list of a plain segment, current_word being the word under way
RECURSIVE PlainWords(_, _)
PlainWords(s, current_word) ==
    LET
        \* the characters that are a word of their own in a plain segment
        IsWordOfItsOwn(c) ==
            LET
                WordSeparators ==
                    {" ", "U+FF0C", "U+3002", "U+FF1A", "U+3001", "U+FF01", "U+FF1F", "U+FF1B"}
            IN
            IsEmoji(c) \/ c \in WordSeparators \/ Ord(c) > 19968
    IN
    IF s = <<>> THEN Flushed(current_word)
    ELSE IF IsWordOfItsOwn(Head(s))
    THEN Flushed(current_word) \o << <<Head(s)>> >> \o PlainWords(Tail(s), <<>>)
    ELSE PlainWords(Tail(s), current_word \o <<Head(s)>>)

RECURSIVE CodeWords(_, _)
CodeWords(s, current_word) ==
    LET
        \* the characters that are a word of their own in a line of code
        IsCodeWordOfItsOwn(c) == IsEmoji(c) \/ c \in {" ", "\t"}
    IN
    IF s = <<>> THEN Flushed(current_word)
    ELSE IF IsCodeWordOfItsOwn(Head(s))
    THEN Flushed(current_word) \o << <<Head(s)>> >> \o CodeWords(Tail(s), <<>>)
    ELSE CodeWords(Tail(s), current_word \o <<Head(s)>>)

LineIfAny(current_line, style, height) ==
    IF current_line # <<>> THEN <<ProcessedLine(current_line, style, height)>> ELSE <<>>

RECURSIVE PlainLines(_, _, _, _, _)

\* the greedy loop of a plain segment had it kept a margin of two
\* ideographs at the end of every line
PlainPlacedWithMargin(rest, word, current_line, width, line_height, style, available_width) ==
    IF width <= available_width - 60
    THEN PlainLines(rest, current_line \o word, line_height, style, available_width)
    ELSE LineIfAny(current_line, style, line_height)
         \o PlainLines(rest, word, line_height, style, available_width)

\* the greedy loop of a plain segment had it dropped the space a line would
\* begin with
PlainPlacedDroppingSpace(rest, word, current_line, width, line_height, style, available_width) ==
    IF width <= available_width
    THEN PlainLines(rest, current_line \o word, line_height, style, available_width)
    ELSE LineIfAny(current_line, style, line_height)
         \o PlainLines(rest, IF word = <<" ">> THEN <<>> ELSE word, line_height,
                       style, available_width)

\* the greedy loop of a plain segment; line_height is never reset
PlainPlaced(rest, word, current_line, width, line_height, style, available_width) ==
    IF width <= available_width
    THEN PlainLines(rest, current_line \o word, line_height, style, available_width)
    ELSE LineIfAny(current_line, style, line_height)
         \o PlainLines(rest, word, line_height, style, available_width)

PlainLines(words, current_line, line_height, style, available_width) ==
    LET
        PlainMeasured(rest, word, current_line0, wh, line_height0, style0, available_width0) ==
            PlainPlaced(rest, word, current_line0, wh[1], Max({line_height0, wh[2]}),
                        style0, available_width0)
    IN
    IF words = <<>> THEN LineIfAny(current_line, style, line_height)
    ELSE PlainMeasured(Tail(words), Head(words), current_line,
                       measure_text(current_line \o Head(words), get_font(style)),
                       line_height, style, available_width)

\* the greedy loop of one line of code, whose height is measured once
RECURSIVE CodeLines(_, _, _, _, _)
CodeLines(words, current_line, height, style, available_width) ==
    LET
        CodePlaced(rest, word, current_line0, width, height0, style0, available_width0) ==
            IF width <= available_width0
            THEN CodeLines(rest, current_line0 \o word, height0, style0, available_width0)
            ELSE LineIfAny(current_line0, style0, height0)
                 \o CodeLines(rest, word, height0, style0, available_width0)
    IN
    IF words = <<>> THEN LineIfAny(current_line, style, height)
    ELSE CodePlaced(Tail(words), Head(words), current_line,
                    measure_text(current_line \o Head(words), get_font(style))[1],
                    height, style, available_width)

\* the lines of a code segment, one text line after the other
RECURSIVE CodeSegmentLines(_, _, _)
CodeSegmentLines(text_lines, style, available_width) ==
    IF text_lines = <<>> THEN <<>>
    ELSE (IF Head(text_lines) = <<>>
          THEN <<ProcessedLine(<<>>, style, get_font(style)[2])>>
          ELSE CodeLines(CodeWords(Head(text_lines), <<>>), <<>>,
                         measure_text(Head(text_lines), get_font(style))[2],
                         style, available_width))
         \o CodeSegmentLines(Tail(text_lines), style, available_width)

split_text_to_lines(segment, available_width) ==
    LET
        \* split_text_to_lines on the characters t of segment.text
        SplitChars(segment0, t, available_width0) ==
            LET
                \* the line of a composite segment0: style._source_segment is the segment0
                SourceLine(t0, style, height, subs) ==
                    [text |-> t0, style |-> style, height |-> height, line_count |-> 1,
                     has_source_segment |-> TRUE, source_segments |-> subs]
            IN
            IF t = <<"\n">> THEN <<ProcessedLine(<<>>, segment0.style, 20)>>
            ELSE IF segment0.has_original_segments
            THEN <<SourceLine(t, segment0.style, measure_text(t, get_font(segment0.style))[2],
                              segment0.original_segments)>>
            ELSE IF segment0.style.is_code
            THEN CodeSegmentLines(SplitAt(t, "\n"), segment0.style, available_width0)
            ELSE PlainLines(PlainWords(t, <<>>), <<>>, 0, segment0.style, available_width0)
    IN
    SplitChars(segment, Chars(segment.text), available_width)

----------------------------------------------------------------------------
(* TextRenderer.calculate_height *)

\* any(l.text.strip() for l in processed_lines[k:]), k 0-based
HasTextFrom(pl, k) == \E j \in (k + 1)..Len(pl) : ~IsBlank(pl[j].text)

\* the loop of calculate_height from line k (1-based) on
RECURSIVE HeightFrom(_, _, _, _)
HeightFrom(pl, k, total_height, prev) ==
    LET
        \* the height a line with text counts for (k 1-based)
        CountedHeight(pl0, k0) ==
            pl0[k0].height * pl0[k0].line_count
            + (IF pl0[k0].style.is_code THEN 20 ELSE 0)
            + (IF pl0[k0].style.is_quote THEN 10 ELSE 0)
            + (IF k0 = Len(pl0) THEN 40 ELSE 0)
        \* the spacing counted in front of line k; prev: the index of prev_line, 0
        \* when it is None
        SpacingBefore(pl0, k0, prev0) ==
            IF prev0 # 0 /\ k0 < Len(pl0)
            THEN (IF pl0[prev0].style.is_category THEN 30
                  ELSE IF pl0[prev0].style.is_title /\ ~pl0[k0].style.is_title THEN 20
                  ELSE pl0[k0].style.line_spacing)
            ELSE 0
    IN
    IF k > Len(pl) THEN total_height
    ELSE IF IsBlank(pl[k].text)
    THEN HeightFrom(pl, k + 1,
             IF k < Len(pl) /\ HasTextFrom(pl, k) /\ prev # 0
             THEN total_height + pl[prev].style.line_spacing
             ELSE total_height,
             prev)
    ELSE HeightFrom(pl, k + 1,
             total_height + SpacingBefore(pl, k, prev) + CountedHeight(pl, k), k)

calculate_height(pl) == HeightFrom(pl, 1, 0, 0)

----------------------------------------------------------------------------
(* TextRenderer.draw_text_with_emoji: the drawing calls it makes, in order, *)
(* and the width it returns                                                 *)

TextOp(t, x, font, fill, slanted) ==
    [kind |-> "text", s |-> t, x |-> x, x2 |-> x, h |-> 0, font |-> font,
     fill |-> fill, slanted |-> slanted]

Drawing(ops, width) == [ops |-> ops, width |-> width]

\* one draw.text call per character, the pen moving by the character's width
RECURSIVE DrawChars(_, _, _, _, _)
DrawChars(t, x, font, fill, slanted) ==
    IF t = <<>> THEN <<>>
    ELSE <<TextOp(<<Head(t)>>, x, FontFor(Head(t), font), fill,
                  slanted /\ ~IsEmoji(Head(t)))>>
         \o DrawChars(Tail(t), x + BoxWidth(Head(t), FontFor(Head(t), font)),
                      font, fill, slanted)

\* code: emoji are drawn without a fill, a newline is not drawn
RECURSIVE DrawCodeChars(_, _, _, _)
DrawCodeChars(t, x, font, fill) ==
    IF t = <<>> THEN <<>>
    ELSE IF Head(t) = "\n" THEN DrawCodeChars(Tail(t), x, font, fill)
    ELSE <<TextOp(<<Head(t)>>, x, FontFor(Head(t), font),
                  IF IsEmoji(Head(t)) THEN "None" ELSE fill, FALSE)>>
         \o DrawCodeChars(Tail(t), x + BoxWidth(Head(t), FontFor(Head(t), font)),
                          font, fill)

RECURSIVE PlainWidth(_, _)
PlainWidth(t, font) ==
    IF t = <<>> THEN 0 ELSE BoxWidth(Head(t), font) + PlainWidth(Tail(t), font)

\* the band behind a line of code or a quote line; wh = measure_text(text)
Background(t, style, x, wh) ==
    LET
        ShapeOp(kind, x0, x2, h, fill) ==
            [kind |-> kind, s |-> <<>>, x |-> x0, x2 |-> x2, h |-> h, font |-> <<"none", 0>>,
             fill |-> fill, slanted |-> FALSE]
    IN
    IF style.is_code
    THEN <<ShapeOp("rounded_rectangle", x - 10, x + wh[1] + 10, wh[2] + 10,
                   IF style.is_dark_theme THEN "code_dark" ELSE "code_light")>>
    ELSE IF style.is_quote
    THEN <<ShapeOp("rectangle", x - 15, x - 10,
                   Max({Max({wh[2], IF IsBlank(t) THEN 20 ELSE 0}) + 10, 20}) + 5,
                   "quote_bar"),
           ShapeOp("rounded_rectangle", x - 10, x + Max({wh[1], 30}) + 10,
                   Max({Max({wh[2], IF IsBlank(t) THEN 20 ELSE 0}) + 10, 20}) + 5,
                   IF style.is_dark_theme THEN "quote_dark" ELSE "quote_light")>>
    ELSE <<>>

MarkerSplit(parts, size, x, font, fill, slanted) ==
    LET
        \* a list item: the marker in bold, then the content 10 pixels further
        MarkerAndContent(marker, content, marker_width, x0, font0, fill0, slanted0) ==
            Drawing(<<TextOp(marker, x0, <<"bold", font0[2]>>, fill0, FALSE)>>
                        \o DrawChars(content, x0 + marker_width + 10, font0, fill0, slanted0),
                    TotalWidth(content, font0) + marker_width + 10)
    IN
    MarkerAndContent(parts[1], IF Len(parts) > 1 THEN parts[2] ELSE <<>>,
                     PlainWidth(parts[1], <<"bold", size>>), x, font, fill, slanted)

\* a text that is not composite, drawn at x in text_color
DrawPlain(t, style, x, font, text_color) ==
    LET
        \* text.split(' ', 1)
        SplitOnce(t0) ==
            IF FindFrom(t0, <<" ">>, 1) = 0 THEN <<t0>>
            ELSE <<Slice(t0, 1, FindFrom(t0, <<" ">>, 1) - 1), From(t0, FindFrom(t0, <<" ">>, 1) + 1)>>
        NotNewline(c) == c # "\n"
    IN
    IF style.is_code
    THEN Drawing(DrawCodeChars(t, x, font, text_color),
                 TotalWidth(SelectSeq(t, NotNewline), font))
    ELSE IF style.is_list_item /\ t # <<>> /\ t[1] \in {Bullet, "-", "+"}
    THEN MarkerSplit(SplitOnce(t), style.font_size, x, font, text_color, style.is_italic)
    ELSE Drawing(DrawChars(t, x, font, text_color, style.is_italic), TotalWidth(t, font))

\* draw_text_with_emoji for a style that has no _source_segment
DrawSimple(t, style, x, font, fill) ==
    LET
        WithBackground(bg, d) == Drawing(bg \o d.ops, d.width)
    IN
    WithBackground(Background(t, style, x, measure_text(t, font)),
                   DrawPlain(t, style, x, font,
                             IF style.text_color # "None" THEN style.text_color ELSE fill))

\* the sub-segments of a composite line, one after the other
RECURSIVE DrawSegments(_, _, _)
DrawSegments(subs, x, fill) ==
    LET
        DrawnThen(d, rest, x0, fill0) ==
            LET
                Joined(d0, e) == Drawing(d0.ops \o e.ops, d0.width + e.width)
            IN
            Joined(d, DrawSegments(rest, x0 + d.width, fill0))
    IN
    IF subs = <<>> THEN Drawing(<<>>, 0)
    ELSE DrawnThen(DrawSimple(Chars(Head(subs).text), Head(subs).style, x,
                              get_font(Head(subs).style), fill),
                   Tail(subs), x, fill)

\* draw_text_with_emoji(draw, (x, y), line.text, font, emoji_font, fill, line.style)
draw_text_with_emoji(line, x, fill) ==
    IF line.has_source_segment
    THEN DrawSegments(line.source_segments, x, fill)
    ELSE DrawSimple(line.text, line.style, x, get_font(line.style), fill)

----------------------------------------------------------------------------
(* The texts handed to parse *)

MaxLines == 3

BaseLines ==
    {<<>>,
     <<"a">>,
     <<"#", "#", " ", "T">>,
     <<"-", " ", "a">>,
     <<"1", ".", " ", "a">>,
     Fence,
     <<">", " ", "q">>,
     <<"a", "<", "b">>}

\* every text of at most MaxLines lines of BaseLines
BaseTexts == {JoinLines(ls) : ls \in UNION {[1..n -> BaseLines] : n \in 0..MaxLines}}

\* one well-formed inline construct of each kind
InlineConstructs ==
    {<<"*", "*", "b", "*", "*">>,
     <<"*", "i", "*">>,
     <<"_", "i", "_">>,
     <<Backtick, "c", Backtick>>,
     <<"~", "~", "s", "~", "~">>,
     <<"[", "a", "]", "(", "u", ")">>}

\* the block forms a line can have, as the text in front of its content
BlockPrefixes ==
    {<<>>,
     <<"a", " ">>,
     <<"#", " ">>,
     <<"#", "#", " ">>,
     <<"#", "#", "#", " ">>,
     <<"-", " ">>,
     <<"-", " ", "[", "x", "]", " ">>,
     <<"1", ".", " ">>,
     <<"1", ".">>,
     <<">", " ">>}

MarkedTexts == {pre \o c : pre \in BlockPrefixes, c \in InlineConstructs}

\* line contents with colour spans
ColorContents ==
    {<<SpanRed, "a", SpanEnd>>,
     <<SpanRed, "a", SpanEnd, " ", "b">>,
     <<"x", " ", SpanRed, " ", "a", " ", SpanEnd, " ", "y">>,
     <<SpanRed, "a", SpanEnd, " ", SpanBlue, "b", SpanEnd>>,
     <<SpanRed, "a", SpanEnd, SpanBlue, "b", SpanEnd>>,
     <<SpanRed, "*", "*", "a", "*", "*", SpanEnd, "b">>,
     <<SpanRed, SpanEnd>>,
     <<SpanRed, "a">>}

ColorTexts == {pre \o c : pre \in BlockPrefixes, c \in ColorContents}

BoldAndItalic ==
    <<"*", "*", "b", "o", "l", "d", "*", "*", " ", "a", "n", "d", " ",
      "*", "i", "t", "a", "l", "i", "c", "*">>

QuoteScenario ==
    JoinLines(<< <<">", " ", "l", "i", "n", "e", "1">>, <<">">>,
                 <<">", " ", "l", "i", "n", "e", "2">> >>)

TaskScenario ==
    JoinLines(<< <<"-", " ", "[", "x", "]", " ", "D", "o", "n", "e">>,
                 <<"-", " ", "[", " ", "]", " ", "T", "o", "d", "o">> >>)

\* two ordered items numbered 4 and 5 on adjacent lines
ListScenario ==
    JoinLines(<< <<"4", ".", " ", "a">>, <<"5", ".", " ", "b">> >>)

\* an empty line, a line with content, then empty lines to the end
BlankScenario == JoinLines(<< <<>>, <<"a">>, <<>>, <<>> >>)

\* a numbered entry with a title, a full-width colon and a body
NewsScenario == <<"1", ".", " ", "T", FullColon, "b">>

\* the same entry with nothing between the dot and the title
NewsCompact == <<"1", ".", "T", FullColon, "b">>

ScenarioTexts ==
    {BoldAndItalic, QuoteScenario, TaskScenario, ListScenario, BlankScenario,
     NewsScenario, NewsCompact}

\* headings of the three levels, a heading whose text is only asterisks, and
\* a paragraph
HeadingLines ==
    {<<"#", " ", "A">>,
     <<"#", "#", " ", "B">>,
     <<"#", "#", "#", " ", "C">>,
     <<"#", "#", " ", "*", "*", "*", "*">>,
     <<"a">>}

HeadingTexts == {JoinLines(ls) : ls \in UNION {[1..n -> HeadingLines] : n \in 1..MaxLines}}

Texts == BaseTexts \cup MarkedTexts \cup ColorTexts \cup ScenarioTexts \cup HeadingTexts

\* the texts a used instance is asked to parse next
FollowTexts ==
    {<<"a">>,
     <<"-", " ", "a">>,
     <<SpanRed, "a", SpanEnd, " ", "b">>,
     <<">", " ", "q">>,
     JoinLines(<<Fence, <<"a">> >>),
     JoinLines(<< <<"a">>, <<>>, <<"a">> >>)}

----------------------------------------------------------------------------
(* parse(text), one iteration of its main loop per step *)

\* no chat request is between its image and its answer
NoPending == [active |-> FALSE, name |-> <<>>]

\* no request has been answered
NoResponse ==
    [endpoint |-> "None", authorization |-> <<>>, filename |-> <<>>, token |-> <<>>,
     expiry |-> <<>>, ran |-> FALSE, status |-> 0, kind |-> "None",
     error |-> "None", declared |-> 0]

\* no server runs
NoServer ==
    /\ server = "None"
    /\ api_keys = {}
    /\ now = 0
    /\ files = {}
    /\ issued = {}
    /\ pending = NoPending
    /\ response = NoResponse

\* nothing has been generated
NoImage ==
    LET
        \* download_image_with_timeout has not been called
        NoDownload ==
            [answers |-> <<>>, timeout |-> 0, max_retries |-> 0, returned |-> "idle",
             requests |-> <<>>]
    IN
    /\ download = NoDownload
    /\ title_image = "None"
    /\ title_height = 0
    /\ image_pasted = FALSE
    /\ requests = <<>>
    /\ is_dark_theme = FALSE
    /\ processed_lines = <<>>
    /\ content_height = 0
    /\ rect_height = 0
    /\ start_y = 0
    /\ current_y = 0
    /\ drawn = <<>>

Init ==
    /\ parser = NewParser
    /\ entry = NewParser
    /\ text = <<>>
    /\ lines = <<>>
    /\ i = 0
    /\ segments = <<>>
    /\ result = <<>>
    /\ pc = "idle"
    /\ NoImage
    /\ NoServer

\* parse is entered: reset(), splitlines()
Call(t) ==
    /\ pc \in {"idle", "done"}
    /\ pc = "done" => t \in FollowTexts
    /\ entry' = parser
    /\ parser' = reset(parser)
    /\ text' = t
    /\ lines' = SplitLines(t)
    /\ i' = 0
    /\ segments' = <<>>
    /\ pc' = "loop"
    /\ UNCHANGED <<result, render_vars, server_vars>>

Iterate ==
    LET
        \* the loop body has run once and left r
        Iterated(r) ==
            /\ parser' = r.parser
            /\ i' = r.i
            /\ segments' = r.segments
    IN
    /\ pc = "loop"
    /\ i < Len(lines)
    /\ Iterated(ParseIteration(parser, lines, i, segments))
    /\ UNCHANGED <<entry, text, lines, result, pc, render_vars, server_vars>>

\* the loop has ended: the signature is appended and the list returned
Return ==
    /\ pc = "loop"
    /\ i >= Len(lines)
    /\ result' = segments \o <<Signature>>
    /\ pc' = "done"
    /\ UNCHANGED <<parser, entry, text, lines, i, segments, render_vars, server_vars>>

Next ==
    \/ \E t \in Texts : Call(t)
    \/ Iterate
    \/ Return

Spec == Init /\ [][Next]_vars

\* parse(t) on a new instance
RECURSIVE RunLoop(_, _, _, _)
RunLoop(p, ls, k, segs) ==
    IF k >= Len(ls) THEN segs \o <<Signature>>
    ELSE LET r == ParseIteration(p, ls, k, segs)
         IN  RunLoop(r.parser, ls, r.i, r.segments)

ParseOnNewInstance(t) == RunLoop(NewParser, SplitLines(t), 0, <<>>)

----------------------------------------------------------------------------
(* generate_image(text, output_path, title_image) *)

Width == 720
RectWidth == 640
RectX == (Width - RectWidth) \div 2
RectY == 40
MaxContentWidth == RectWidth - 80

\* clean_html_tags: the span tags still open at the end of s
RECURSIVE OpenTags(_, _)
OpenTags(s, open) ==
    IF s = <<>> THEN open
    ELSE IF IsSpanOpen(Head(s)) THEN OpenTags(Tail(s), open + 1)
    ELSE IF Head(s) = SpanEnd THEN OpenTags(Tail(s), Max({open - 1, 0}))
    ELSE OpenTags(Tail(s), open)

RECURSIVE Repeated(_, _)
Repeated(s, n) == IF n = 0 THEN <<>> ELSE s \o Repeated(s, n - 1)

\* preprocess_text(text)[1] for a text with no |LOGO| mark, no leading image
\* URL and no JSON object, which is then returned as cleaned
preprocess_text(s) ==
    LET
        \* clean_html_tags: a closing tag is added for every span left open
        clean_html_tags(s0) == s0 \o Repeated(<<SpanEnd>>, OpenTags(s0, 0))
    IN
    clean_html_tags(s)

\* for segment in segments: segment.style.is_dark_theme = is_dark_theme
RECURSIVE Themed(_, _)
Themed(segs, dark) ==
    IF segs = <<>> THEN <<>>
    ELSE <<[Head(segs) EXCEPT !.style.is_dark_theme = dark]>> \o Themed(Tail(segs), dark)

\* the image is 2 wide for 1 high: int((rect_width - 40) * aspect_ratio)
TitleImageHeight == (RectWidth - 40) \div 2

\* add_title_image: the bottom of the image plus 20, rect_y + 30 when the
\* image cannot be loaded
add_title_image(loaded) ==
    IF loaded
    THEN RectY + 20 + Min({TitleImageHeight, RectWidth \div 2}) + 20
    ELSE RectY + 30

\* the lines of one segment
SegmentLines(segment) ==
    IF ~IsBlank(segment.text)
    THEN split_text_to_lines(segment, MaxContentWidth - segment.style.indent)
    ELSE <<ProcessedLine(<<>>, segment.style, 0)>>

\* an emoji followed by two ideographs
EmojiScenario == <<EmojiGrin, "U+4F60", "U+597D">>

\* seventeen ideographs and a flag, the pair of regional indicators U and S,
\* of which only the first fits on the line
FlagScenario == Repeated(<<"U+4E2D">>, 17) \o <<"U+1F1FA", "U+1F1F8">>

\* three quote lines, the second with nothing between its bold markers
EmptyQuoteScenario ==
    JoinLines(<< <<">", " ", "a">>, <<">", " ", "*", "*", "*", "*">>, <<">", " ", "b">> >>)

\* eighteen ideographs fill the line, a Latin word goes to the next one
IdeographsThenWord == Repeated(<<"U+4E2D">>, 18) \o Repeated(<<"a">>, 4)

\* a Latin word fills the line, the ideograph after it does not fit any more
WordThenIdeograph == Repeated(<<"a">>, 37) \o <<"U+4E2D">>

\* a word fills the line and the space after it does not fit any more
WordThenSpace == Repeated(<<"a">>, 37) \o <<" ", "b">>

\* the texts handed to generate_image
RenderTexts ==
    {<<"x">>,
     IdeographsThenWord,
     WordThenIdeograph,
     WordThenSpace,
     TaskScenario,
     QuoteScenario,
     BoldAndItalic,
     JoinLines(<< <<"#", "#", " ", "T">>, <<"x">> >>),
     JoinLines(<< <<"#", " ", "T">>, <<>>, <<"x">>, <<>>, <<"y">> >>),
     JoinLines(<< <<"-", " ", "a">>, <<"-", " ", "*", "i", "*">> >>),
     JoinLines(<<Fence, <<"a", "<", "b">>, <<>>, Fence, <<"x">> >>),
     JoinLines(<<Fence, Repeated(<<"a">>, 20) \o <<" ">> \o Repeated(<<"b">>, 20)>>),
     Repeated(<<"U+4E2D">>, 20),
     Repeated(<<"a">>, 20) \o <<" ">> \o Repeated(<<"b">>, 20),
     Repeated(<<"a">>, 40),
     <<SpanRed>> \o Repeated(<<"U+4E2D">>, 10) \o <<SpanEnd>> \o Repeated(<<"U+4E2D">>, 10),
     <<SpanRed, "a", SpanEnd, " ", "b">>,
     <<SpanRed, "a">>,
     <<">", " ", SpanRed, "a", SpanEnd, " ", "b">>,
     <<"-", " ", SpanRed, "a", SpanEnd, " ", "b">>,
     JoinLines(<< <<"U+56FD", "U+5185", "U+8981", "U+95FB">>, <<"x">> >>),
     <<"1", ".", "T", FullColon, "b">>,
     <<EmojiGrin, " ", "T">>,
     <<"a", " ", "*", "i", "*">>,
     <<"a", " ", "<", "b", ">", " ", "c">>,
     <<"a", "U+4E00", "b">>,
     EmojiScenario,
     FlagScenario,
     EmptyQuoteScenario}

\* no title image, a local file, a local file that does not exist, a URL
TitleImages == {"None", "image", "missing", "remote"}

RenderInit ==
    /\ parser = NewParser
    /\ entry = NewParser
    /\ text = <<>>
    /\ lines = <<>>
    /\ i = 0
    /\ segments = <<>>
    /\ result = <<>>
    /\ pc = "start"
    /\ NoImage
    /\ NoServer

\* the text is preprocessed and parsed by a new MarkdownParser, and every
\* segment is given the theme
GenerateImage(t, title, dark) ==
    /\ pc = "start"
    /\ title_image' = title
    /\ is_dark_theme' = dark
    /\ text' = (IF title # "None" THEN <<"\n", "\n">> ELSE <<>>) \o preprocess_text(t)
    /\ segments' = Themed(ParseOnNewInstance(text'), dark)
    /\ i' = 0
    /\ pc' = "split"
    /\ UNCHANGED <<server_vars, download, parser, entry, lines, result, processed_lines, content_height,
                   rect_height, start_y, current_y, drawn, title_height,
                   image_pasted, requests>>

\* for segment in segments: its lines are added to processed_lines
SplitSegment ==
    /\ pc = "split"
    /\ i < Len(segments)
    /\ processed_lines' = processed_lines \o SegmentLines(segments[i + 1])
    /\ i' = i + 1
    /\ UNCHANGED <<server_vars, download, parser, entry, text, lines, segments, result, pc, title_image,
                   is_dark_theme, content_height, rect_height, start_y, current_y,
                   drawn, title_height, image_pasted, requests>>

\* What becomes of an attempt to load the title image: "image" when its
\* content is there, "error" when the file is missing, the server answers
\* with an error or the content is no image, "silent" when the server accepts
\* the connection and never answers.
LoadOutcomes(title) ==
    CASE title = "None" -> {"error"}
      [] title = "image" -> {"image"}
      [] title = "missing" -> {"error"}
      [] title = "remote" -> {"image", "error", "silent"}

\* the heights are computed
CalculateHeight ==
    LET
        \* the title image is measured with requests.get(title_image), which has no
        \* timeout, or Image.open(title_image); then calculate_height
        MeasuredWith(outcome) ==
            /\ requests' = IF title_image = "remote" THEN Append(requests, 0) ELSE requests
            /\ IF outcome = "silent"
               THEN /\ pc' = "blocked"
                    /\ UNCHANGED <<title_height, content_height, rect_height>>
               ELSE /\ title_height' = IF outcome = "image" THEN TitleImageHeight + 40 ELSE 0
                    /\ content_height' = calculate_height(processed_lines)
                    /\ rect_height' = Max({content_height', 300}) + title_height'
                    /\ pc' = "title"
    IN
    /\ pc = "split"
    /\ i >= Len(segments)
    /\ \E outcome \in LoadOutcomes(title_image) : MeasuredWith(outcome)
    /\ UNCHANGED <<server_vars, download, parser, entry, text, lines, i, segments, result, title_image,
                   is_dark_theme, processed_lines, start_y, current_y, drawn,
                   image_pasted>>

MaxRetries == 5

\* download_image_with_timeout had it gone on after a 200 response that is no
\* image
download_retrying_after_junk(answers, timeout, max_retries) ==
    LET
        RECURSIVE Loop(_)
        Loop(retry_count) ==
            IF ~(retry_count < max_retries)
            THEN [image |-> FALSE, requests |-> Repeated(<<timeout>>, retry_count)]
            ELSE IF answers[retry_count + 1] = "image"
            THEN [image |-> TRUE, requests |-> Repeated(<<timeout>>, retry_count + 1)]
            ELSE Loop(retry_count + 1)
    IN
    Loop(0)

\* download_image_with_timeout(url, timeout, max_retries) with a server that
\* answers the successive requests by answers: "image" (status 200, the
\* content is an image), "junk" (status 200, UnidentifiedImageError), "status"
\* (another status), "exception" (RequestException or IOError, a timeout
\* included).  image: an image is returned, not None; requests: the timeouts
\* of the requests made.
download_image_with_timeout(answers, timeout, max_retries) ==
    LET
        RECURSIVE Loop(_)
        Loop(retry_count) ==
            IF ~(retry_count < max_retries)
            THEN [image |-> FALSE, requests |-> Repeated(<<timeout>>, retry_count)]
            ELSE IF answers[retry_count + 1] = "image"
            THEN [image |-> TRUE, requests |-> Repeated(<<timeout>>, retry_count + 1)]
            ELSE IF answers[retry_count + 1] = "junk"
            THEN [image |-> FALSE, requests |-> Repeated(<<timeout>>, retry_count + 1)]
            ELSE Loop(retry_count + 1)
    IN
    Loop(0)

\* what the server does with the requests for the title image: it fails some
\* of them, then answers an image or something else
TitleAnswers ==
    {Repeated(<<"exception">>, k) \o Repeated(<<last>>, MaxRetries - k) :
        k \in 0..MaxRetries, last \in {"image", "junk"}}

\* the card is created and the cursor is placed under the title image
AddTitleImage ==
    LET
        \* the title image as add_title_image gets it, with the requests made
        TitleLoads ==
            IF title_image = "remote"
            THEN {download_image_with_timeout(answers, 15, MaxRetries) : answers \in TitleAnswers}
            ELSE {[image |-> outcome = "image", requests |-> <<>>] :
                     outcome \in LoadOutcomes(title_image)}
    IN
    /\ pc = "title"
    /\ \E loaded \in TitleLoads :
           /\ requests' = requests \o loaded.requests
           /\ image_pasted' = loaded.image
           /\ current_y' = IF title_image # "None"
                           THEN add_title_image(loaded.image)
                           ELSE RectY + 30
    /\ start_y' = current_y'
    /\ i' = 0
    /\ pc' = "draw"
    /\ UNCHANGED <<server_vars, download, parser, entry, text, lines, segments, result, title_image,
                   is_dark_theme, processed_lines, drawn, title_height,
                   content_height, rect_height>>

DrawLineAt(line, k) ==
    LET
        \* what drawing line k (0-based) leaves; d: what draw_text_with_emoji did
        LineDrawn(line0, k0, last, d) ==
            /\ drawn' = Append(drawn, [y |-> current_y, ops |-> d.ops])
            /\ current_y' = current_y + line0.height
                            + (IF k0 < last THEN line0.style.line_spacing ELSE 0)
        \* what an empty line leaves
        LineSkipped(line0, k0) ==
            /\ drawn' = Append(drawn, [y |-> current_y, ops |-> <<>>])
            /\ current_y' = current_y
                            + (IF k0 < Len(processed_lines) - 1 /\ HasTextFrom(processed_lines, k0 + 1)
                               THEN line0.style.line_spacing ELSE 0)
        \* where a line starts: right-aligned or indented
        LineX(line0) ==
            IF line0.style.alignment = "right"
            THEN RectX + RectWidth - 40 - TotalWidth(line0.text, get_font(line0.style))
            ELSE RectX + 40 + line0.style.indent
        \* get_theme_colors()[1]
        ThemeTextColor(dark) == IF dark THEN "#FFFFFF" ELSE "#000000"
    IN
    IF IsBlank(line.text) THEN LineSkipped(line, k)
    ELSE LineDrawn(line, k, Len(processed_lines) - 1,
                   draw_text_with_emoji(line, LineX(line), ThemeTextColor(is_dark_theme)))

\* one iteration of the drawing loop
DrawLine ==
    /\ pc = "draw"
    /\ i < Len(processed_lines)
    /\ DrawLineAt([processed_lines[i + 1] EXCEPT !.style.is_dark_theme = is_dark_theme], i)
    /\ i' = i + 1
    /\ UNCHANGED <<server_vars, download, parser, entry, text, lines, segments, result, pc, title_image,
                   is_dark_theme, processed_lines, content_height, rect_height, start_y,
                   title_height, image_pasted, requests>>

\* background.save(output_path)
SaveImage ==
    /\ pc = "draw"
    /\ i >= Len(processed_lines)
    /\ pc' = "saved"
    /\ UNCHANGED <<server_vars, download, parser, entry, text, lines, i, segments, result, title_image,
                   is_dark_theme, processed_lines, content_height, rect_height,
                   start_y, current_y, drawn, title_height, image_pasted, requests>>

RenderNext ==
    \/ \E t \in RenderTexts, title \in TitleImages, dark \in BOOLEAN :
           GenerateImage(t, title, dark)
    \/ SplitSegment
    \/ CalculateHeight
    \/ AddTitleImage
    \/ DrawLine
    \/ SaveImage

SpecRender == RenderInit /\ [][RenderNext]_vars

----------------------------------------------------------------------------
(* Properties of parse *)

\* the segments of a returned list without the signature
Body(r) == SubSeq(r, 1, Len(r) - 1)

\* the runs of a segment: its sub-segments when it is composite, else itself
Runs(seg) == IF seg.has_original_segments THEN seg.original_segments ELSE <<seg>>

IsColored(seg) == seg.style.text_color # "None"

IsSpanTag(c) == c \in {SpanRed, SpanBlue, SpanEnd}

IsPlainSymbol(c) == ~IsSpanTag(c)

\* a line with its span tags removed
StripTags(s) == SelectSeq(s, IsPlainSymbol)

\* C3: parse keeps no state between calls: whatever the instance parsed
\* before (a text that ends inside an open fence, a text with a ## heading),
\* the list a call returns is the list a new instance returns for the text.
C3_NoStateBetweenCalls ==
    pc = "done" => result = ParseOnNewInstance(text)

\* a call has returned on an instance that an earlier call left inside an
\* open fence, under a ## heading
C3_Witness ==
    /\ pc = "done"
    /\ entry.in_code_block
    /\ ~entry.current_section.is_none
    /\ text = <<"a">>

\* lines made of text and well-formed colour spans only, with no block marker
\* and no inline marker
PlainColorLines ==
    {<<SpanRed, "a", SpanEnd>>,
     <<SpanRed, "a", SpanEnd, " ", "b">>,
     <<"x", " ", SpanRed, " ", "a", " ", SpanEnd, " ", "y">>,
     <<SpanRed, "a", SpanEnd, " ", SpanBlue, "b", SpanEnd>>,
     <<SpanRed, "a", SpanEnd, SpanBlue, "b", SpanEnd>>}

\* C4: a line with N colour spans becomes N coloured runs, in order, plus
\* the uncoloured text around them, and the texts of the runs concatenated
\* are the line without its tags: no character, whitespace included, is lost.
C4_ColorSpanIntegrity ==
    (pc = "done" /\ text \in PlainColorLines) =>
        /\ Len(result) = 2
        /\ Len(SelectSeq(Runs(result[1]), IsColored)) = Len(ColorMatches(text, 1))
        /\ Concat(TextsOf(Runs(result[1]))) = StripTags(text)

\* C5: the text of every composite segment is the concatenation, in order,
\* of the texts of its original_segments.
C5_CompositeTextIsConcatenation ==
    \A k \in 1..Len(segments) :
        segments[k].has_original_segments =>
            segments[k].text = Concat(TextsOf(segments[k].original_segments))

\* the loop has built a composite ordered-list line: the number and two parts
C5_Witness ==
    \E k \in 1..Len(segments) :
        /\ segments[k].has_original_segments
        /\ segments[k].style.is_list_item
        /\ Len(segments[k].original_segments) = 3
        /\ segments[k].original_segments[1].text = <<"1", ".", " ">>

\* a text still holds a well-formed inline construct
HasInlineMarker(s) ==
    \/ bold_search(s)
    \/ italic_search(s)
    \/ code_sub(s) # s
    \/ strikethrough_sub(s) # s
    \/ link_sub(s) # s

\* C6: whatever block form a line outside a code block has, no segment text
\* that parse returns holds an inline marker.
C6_NoInlineMarkerRemains ==
    (pc = "done" /\ text \in MarkedTexts) =>
        \A k \in 1..Len(result) :
            ~result[k].style.is_code => ~HasInlineMarker(result[k].text)

RECURSIVE BoldFlags(_)
BoldFlags(segs) ==
    IF segs = <<>> THEN <<>> ELSE <<Head(segs).style.is_bold>> \o BoldFlags(Tail(segs))

\* C7: the line "**bold** and *italic*" becomes one line with the text
\* "bold and italic", made of a bold run and a run that is not bold, and it
\* is not a title.
C7_BoldAndItalicScenario ==
    (pc = "done" /\ text = BoldAndItalic) =>
        /\ Len(result) = 2
        /\ result[1].text = <<"b", "o", "l", "d", " ", "a", "n", "d", " ",
                              "i", "t", "a", "l", "i", "c">>
        /\ BoldFlags(Runs(result[1])) = <<TRUE, FALSE>>
        /\ ~result[1].style.is_title

\* C8: "> line1", ">", "> line2" become three quote segments with the texts
\* "line1", "" and "line2".
C8_EmptyQuoteLineScenario ==
    (pc = "done" /\ text = QuoteScenario) =>
        /\ TextsOf(Body(result)) =
               << <<"l", "i", "n", "e", "1">>, <<>>, <<"l", "i", "n", "e", "2">> >>
        /\ \A k \in 1..Len(Body(result)) : result[k].style.is_quote

\* the first closing fence after line k (1-based), Len(ls) + 1 when none
FirstFenceAfter(ls, k) ==
    IF \E j \in (k + 1)..Len(ls) : StartsWith(ls[j], Fence)
    THEN Min({j \in (k + 1)..Len(ls) : StartsWith(ls[j], Fence)})
    ELSE Len(ls) + 1

\* the interiors of the fenced blocks of ls, read from line k (1-based)
RECURSIVE FencedInteriors(_, _)
FencedInteriors(ls, k) ==
    IF k > Len(ls) THEN <<>>
    ELSE IF StartsWith(ls[k], Fence)
    THEN <<Slice(ls, k + 1, FirstFenceAfter(ls, k) - 1)>>
         \o FencedInteriors(ls, FirstFenceAfter(ls, k) + 1)
    ELSE FencedInteriors(ls, k + 1)

RECURSIVE EscapedBlocks(_)
EscapedBlocks(bs) ==
    IF bs = <<>> THEN <<>>
    ELSE <<EscapeHtml(JoinLines(Head(bs)))>> \o EscapedBlocks(Tail(bs))

IsCode(seg) == seg.style.is_code

\* reading ls from line k (1-based), the last fence opens a block that is
\* never closed
RECURSIVE EndsInOpenFence(_, _)
EndsInOpenFence(ls, k) ==
    IF k > Len(ls) THEN FALSE
    ELSE IF StartsWith(ls[k], Fence)
    THEN FirstFenceAfter(ls, k) > Len(ls) \/ EndsInOpenFence(ls, FirstFenceAfter(ls, k) + 1)
    ELSE EndsInOpenFence(ls, k + 1)

\* C10: every opening fence gives exactly one code segment, whose text is the
\* interior lines joined by newlines with < and > escaped and nothing else
\* changed; after a fence that is never closed the code segment holds all
\* the remaining lines and only the signature follows it.
C10_FencedCodeBlocks ==
    pc = "done" =>
        /\ TextsOf(SelectSeq(result, IsCode)) = EscapedBlocks(FencedInteriors(lines, 1))
        /\ EndsInOpenFence(lines, 1) =>
               /\ Len(result) >= 2
               /\ result[Len(result) - 1].style.is_code
               /\ result[Len(result)] = Signature

\* a fence that is never closed, with two lines after it
C10_Witness ==
    /\ pc = "done"
    /\ lines = <<Fence, <<"a", "<", "b">>, <<"#", "#", " ", "T">> >>
    /\ result[1].text = <<"a", "&lt;", "b", "\n", "#", "#", " ", "T">>

----------------------------------------------------------------------------
(* Properties of generate_image *)

\* the words split_text_to_lines reads in the text of a line
WordsOf(line) ==
    IF line.style.is_code THEN CodeWords(line.text, <<>>) ELSE PlainWords(line.text, <<>>)

\* C1: every line that split_text_to_lines returns, for a plain, a code or
\* a composite segment, is at most available_width wide (the widths of its
\* characters added up), unless the line is one unbreakable token.
C1_LinesFitAvailableWidth ==
    \A k \in 1..Len(processed_lines) :
        \/ IsBlank(processed_lines[k].text)
        \/ TotalWidth(processed_lines[k].text, get_font(processed_lines[k].style))
               <= MaxContentWidth - processed_lines[k].style.indent
        \/ Len(WordsOf(processed_lines[k])) = 1

\* C2: the height calculate_height returns is the distance the drawing loop
\* moves its cursor over the same lines.
C2_MeasuredHeightIsDrawnHeight ==
    pc = "saved" => content_height = current_y - start_y

\* the characters the text calls of a line draw, in order
RECURSIVE Spelled(_)
Spelled(ops) ==
    IF ops = <<>> THEN <<>>
    ELSE (IF Head(ops).kind = "text" THEN Head(ops).s ELSE <<>>) \o Spelled(Tail(ops))

TaskTexts == << <<"D", "o", "n", "e">>, <<"T", "o", "d", "o">> >>

IsCharacterRun(ops, font, fill) ==
    /\ \A j \in 1..Len(ops) :
           /\ ops[j].kind = "text"
           /\ Len(ops[j].s) = 1
           /\ ops[j].font = font
           /\ ops[j].fill = fill
    /\ \A j \in 1..(Len(ops) - 1) : ops[j].x < ops[j + 1].x

IsListLine(l) == list_match(l)[1] \/ number_match(l)[1]

\* at least two list items and nothing else, adjacent or one blank line apart
IsListOfItems(ls) ==
    /\ Len(ls) >= 2
    /\ IsListLine(ls[1])
    /\ IsListLine(ls[Len(ls)])
    /\ \A k \in 1..Len(ls) : IsListLine(ls[k]) \/ ls[k] = <<>>
    /\ \A k \in 1..(Len(ls) - 1) : ls[k] # <<>> \/ ls[k + 1] # <<>>

IsSpacer(seg) == seg.text = <<>>

\* C11: between two consecutive list items (unordered, task, or ordered with
\* any number), adjacent or separated by one blank line, parse puts no
\* spacer: a text of such items alone gives no empty-text segment.
C11_NoSpacerBetweenListItems ==
    (pc = "done" /\ IsListOfItems(lines)) =>
        SelectSeq(Body(result), IsSpacer) = <<>>

\* the lines without the blank lines after the last line with content
RECURSIVE WithoutTrailingBlanks(_)
WithoutTrailingBlanks(ls) ==
    IF ls = <<>> \/ ~IsBlank(ls[Len(ls)]) THEN ls
    ELSE WithoutTrailingBlanks(SubSeq(ls, 1, Len(ls) - 1))

\* a segment as parse makes it for an empty line
IsBlankLineSpacer(seg) == seg = Spacer(seg.style.line_spacing)

\* C12: the blank lines after the last line with content produce no
\* segment: parse returns as many segments as it does for the text without
\* them, and the segment before the signature is never a blank-line spacer.
C12_TrailingBlankLinesProduceNothing ==
    pc = "done" =>
        /\ Len(result) = Len(ParseOnNewInstance(JoinLines(WithoutTrailingBlanks(lines))))
        /\ Len(result) >= 2 => ~IsBlankLineSpacer(result[Len(result) - 1])

\* a text whose first empty line is followed by content and whose last one
\* is not: the first has given a spacer, the last nothing
C12_Witness ==
    /\ pc = "done"
    /\ text = BlankScenario
    /\ lines = << <<>>, <<"a">>, <<>> >>
    /\ Len(result) = 3
    /\ IsBlankLineSpacer(result[1])

IsRightAligned(seg) == seg.style.alignment = "right"

\* C13: for every text, the empty one included, parse returns a list that
\* ends with the signature, right-aligned and with the signature string as
\* its text; no other segment is right-aligned and no blank-line spacer
\* stands between the last content segment and the signature.
C13_SignatureIsLast ==
    pc = "done" =>
        /\ Len(result) >= 1
        /\ result[Len(result)].text = <<"U+2014", "B", "y", " ", "U+98DE", "U+5929">>
        /\ IsRightAligned(result[Len(result)])
        /\ ~result[Len(result)].has_original_segments
        /\ SelectSeq(Body(result), IsRightAligned) = <<>>
        /\ Len(result) >= 2 => ~IsBlankLineSpacer(result[Len(result) - 1])

\* parse has returned for the empty text: the signature alone
C13_Witness ==
    /\ pc = "done"
    /\ text = <<>>
    /\ lines = <<>>
    /\ Len(result) = 1

\* parse has returned for a text whose last line has content
C13_WitnessContent ==
    /\ pc = "done"
    /\ lines = << <<"a">>, <<>>, <<"a">> >>
    /\ Len(result) = 5

\* C14: a token wider than the available width is split character by
\* character, so every line of a plain or code segment is at most the
\* available width plus one character wide.
C14_LongTokenIsSplit ==
    \A k \in 1..Len(processed_lines) :
        \/ processed_lines[k].has_source_segment
        \/ TotalWidth(processed_lines[k].text, get_font(processed_lines[k].style))
               <= MaxContentWidth - processed_lines[k].style.indent
                      + processed_lines[k].style.font_size

\* a code point of the CJK unified ideographs, U+4E00 to U+9FFF
IsIdeograph(c) == Ord(c) >= 19968 /\ Ord(c) <= 40959

HasIdeograph(word) == \E j \in 1..Len(word) : IsIdeograph(word[j])

\* the tokens split_text_to_lines makes of a plain segment
TokensOf(seg) == PlainWords(Chars(seg.text), <<>>)

\* the emoji scenario gives the three tokens, one per character
C15_EmojiScenarioTokens ==
    \A k \in 1..Len(segments) :
        segments[k].text = EmojiScenario =>
            TokensOf(segments[k]) = << <<EmojiGrin>>, <<"U+4F60">>, <<"U+597D">> >>

\* C15: when a non-code segment is tokenized, every ideograph from U+4E00 to
\* U+9FFF is a token by itself, never part of a longer token, and the
\* emoji scenario gives one token per character.
C15_IdeographIsOwnToken ==
    /\ \A k \in 1..Len(segments) :
           ~segments[k].style.is_code =>
               \A w \in 1..Len(TokensOf(segments[k])) :
                   HasIdeograph(TokensOf(segments[k])[w]) =>
                       Len(TokensOf(segments[k])[w]) = 1
    /\ C15_EmojiScenarioTokens

\* a regional indicator symbol, U+1F1E6 to U+1F1FF; two of them are a flag
IsRegionalIndicator(c) == Ord(c) >= 127462 /\ Ord(c) <= 127487

\* C16: an emoji cluster of several code points is one token: no line ends
\* with the first code point of a flag while the next line begins with the
\* second.
C16_NoBreakInsideEmojiCluster ==
    \A k \in 1..(Len(processed_lines) - 1) :
        ~(/\ processed_lines[k].text # <<>>
          /\ processed_lines[k + 1].text # <<>>
          /\ IsRegionalIndicator(processed_lines[k].text[Len(processed_lines[k].text)])
          /\ IsRegionalIndicator(processed_lines[k + 1].text[1]))

\* C17: when the title image cannot be obtained, the card is still made, no
\* image is drawn, no height is kept for the image and the text starts
\* where it starts without a title image, whatever the attempt of the
\* measuring phase gave.
C17_MissingTitleImageIsOmitted ==
    (pc \in {"draw", "saved"} /\ title_image # "None" /\ ~image_pasted) =>
        /\ title_height = 0
        /\ rect_height = Max({content_height, 300})
        /\ start_y = RectY + 30

\* the same for a file that does not exist, where both attempts fail
C17_MissingFileIsOmitted ==
    (pc \in {"draw", "saved"} /\ title_image = "missing") =>
        /\ ~image_pasted
        /\ title_height = 0
        /\ rect_height = Max({content_height, 300})
        /\ start_y = RectY + 30

\* C18: every request made during a render carries a timeout, and
\* generate_image is never left waiting for a server that does not answer.
C18_EveryRequestHasTimeout ==
    /\ \A k \in 1..Len(requests) : requests[k] > 0
    /\ pc # "blocked"

\* the requests of download_image_with_timeout carry their timeout
C18_DownloadRequestsHaveTimeout ==
    \A k \in 2..Len(requests) : requests[k] = 15

IsQuoteShape(op) == op.kind # "text" /\ op.fill \in {"quote_bar", "quote_dark", "quote_light"}

\* an empty line of a quote
IsEmptyQuoteLine(line) == line.style.is_quote /\ IsBlank(line.text)

\* C19: for every empty quote line the drawing pass draws the bar and the
\* tinted band of the quote, so the band goes on across the line.
C19_EmptyQuoteLineIsDrawn ==
    pc = "saved" =>
        \A k \in 1..Len(processed_lines) :
            IsEmptyQuoteLine(processed_lines[k]) =>
                Len(SelectSeq(drawn[k].ops, IsQuoteShape)) = 2

\* the quote lines with text do get their bar and band
C19_QuoteLineWithTextIsDrawn ==
    pc = "saved" =>
        \A k \in 1..Len(processed_lines) :
            (processed_lines[k].style.is_quote /\ ~IsBlank(processed_lines[k].text)
                 /\ ~processed_lines[k].has_source_segment) =>
                Len(SelectSeq(drawn[k].ops, IsQuoteShape)) = 2

\* a bold run  1. T:  followed by a regular run  b
IsTitleAndBody(r) ==
    /\ Len(r) = 3
    /\ r[1].text = <<"1", ".", " ", "T", FullColon>>
    /\ r[1].style.is_bold
    /\ r[2].text = <<"b">>
    /\ ~r[2].style.is_bold

\* C20: a line  N. Title:Body  with a full-width colon (digits, a dot,
\* whitespace, a title, the colon, a body) is parsed into a bold title run
\* "N. Title:" and a regular body run "Body", in this order.
C20_NewsEntryIsSplit ==
    (pc = "done" /\ text = NewsScenario) => IsTitleAndBody(result)

\* the split is made when nothing stands between the dot and the title
C20_CompactNewsEntryIsSplit ==
    (pc = "done" /\ text = NewsCompact) => IsTitleAndBody(result)

----------------------------------------------------------------------------
(* Headings and the section indent *)

\* the line is a heading of level n: n hashes and a space after the strip
IsHeading(line, n) == StartsWith(Strip(line), Repeated(<<"#">>, n) \o <<" ">>)

\* a paragraph of letters and spaces, which no block form claims
IsParagraph(line) ==
    /\ line # <<>>
    /\ line[1] \in {"a", "b"}
    /\ \A k \in 1..Len(line) : line[k] \in {"a", "b", " "}

\* the lines (1-based) the main loop examines one by one, from line k on:
\* the lines of a fenced block are consumed with the fence that opens it
RECURSIVE ExaminedFrom(_, _)
ExaminedFrom(ls, k) ==
    IF k > Len(ls) THEN {}
    ELSE IF StartsWith(ls[k], Fence) THEN ExaminedFrom(ls, FirstFenceAfter(ls, k) + 1)
    ELSE {k} \cup ExaminedFrom(ls, k + 1)

\* a level-2 heading is among the first k lines
SectionOpenedBy(ls, k) ==
    \E j \in ExaminedFrom(ls, 1) : j <= k /\ IsHeading(RStrip(ls[j]), 2)

HeadingFontSizes == <<40, 35, 32>>

\* the segments one iteration has appended
Appended == SubSeq(segments', Len(segments) + 1, Len(segments'))

\* one iteration on a heading or on a paragraph
HeadingStep ==
    (pc = "loop" /\ i < Len(lines) /\ i' = i + 1 /\ pc' = "loop") =>
        /\ \A n \in 1..3 :
               IsHeading(RStrip(lines[i + 1]), n) =>
                   /\ Appended # <<>>
                   /\ Appended[1].style.is_title
                   /\ Appended[1].style.font_size = HeadingFontSizes[n]
        /\ IsParagraph(RStrip(lines[i + 1])) =>
               /\ Appended # <<>>
               /\ Appended[1].style.indent = IF SectionOpenedBy(lines, i) THEN 40 ELSE 0

\* C21: headings of levels 1, 2, 3 give title segments of strictly decreasing
\* font size; a paragraph is indented by 40 exactly when a level-2 heading
\* stands on an earlier line of the same call, and by 0 before; what a
\* level-2 heading has set, no later line clears.
C21_SectionIndentFollowsHeading ==
    /\ \A n, m \in 1..3 : n < m => HeadingFontSizes[n] > HeadingFontSizes[m]
    /\ [][HeadingStep]_vars
    /\ [](pc \in {"loop", "done"} =>
              (SectionIndent(parser) = 40 <=> SectionOpenedBy(lines, i)))

\* no level-2 heading of the text is left without text once the inline markers
\* are removed
HeadingsAreNamed ==
    \A j \in 1..Len(lines) : lines[j] # <<"#", "#", " ", "*", "*", "*", "*">>

\* the headings and the indent rule for the texts whose headings keep a text
C21_SectionIndentFollowsNamedHeading ==
    /\ [][HeadingsAreNamed => HeadingStep]_vars
    /\ [](pc \in {"loop", "done"} /\ HeadingsAreNamed =>
              (SectionIndent(parser) = 40 <=> SectionOpenedBy(lines, i)))

----------------------------------------------------------------------------
(* The API servers: src/app.py (Flask, configured by src/config.py) and     *)
(* src/api_server.py (FastAPI).  A header or query value is a sequence of   *)
(* symbols; "Bearer", "Basic", "sk-test", "k1", ".png" and the like are      *)
(* lexemes.  A value that is absent and the empty string take the same      *)
(* branches in both servers (`if not value`) and are both <<>>.             *)

DigitSymbols == <<"0", "1", "2", "3", "4", "5", "6", "7", "8", "9">>

\* str(n), n >= 0
RECURSIVE Str(_)
Str(n) ==
    IF n < 10 THEN <<DigitSymbols[n + 1]>>
    ELSE Str(n \div 10) \o <<DigitSymbols[(n % 10) + 1]>>

\* int(s): ok is false where Python raises ValueError; a sign is accepted
int(s) ==
    LET
        RECURSIVE Value(_, _)
        Value(ds, acc) ==
            IF ds = <<>> THEN acc
            ELSE Value(Tail(ds),
                       acc * 10 + (CHOOSE d \in 0..9 : DigitSymbols[d + 1] = Head(ds)))
        body == IF s # <<>> /\ s[1] = "+" THEN Tail(s) ELSE s
    IN
    IF body # <<>> /\ \A k \in 1..Len(body) : body[k] \in Digits
    THEN [ok |-> TRUE, value |-> Value(body, 0)]
    ELSE [ok |-> FALSE, value |-> 0]

\* TOKEN_EXPIRY, the default of both servers
TOKEN_EXPIRY == 3600

SECRET_KEY == <<"secret">>

\* hashlib.sha256(message).hexdigest()[:32]: one digest per message
sha256(message) == <<"sha256">> \o message

\* Config.generate_image_token(filename), with the clock at now
generate_image_token(filename) ==
    [token |-> sha256(filename \o Str(now + TOKEN_EXPIRY) \o SECRET_KEY),
     expiry |-> now + TOKEN_EXPIRY]

\* Config.verify_image_token(filename, token, expiry)
verify_image_token(filename, token, expiry) ==
    IF ~int(expiry).ok THEN FALSE
    ELSE IF now > int(expiry).value THEN FALSE
    ELSE token = sha256(filename \o expiry \o SECRET_KEY)

\* a response: its HTTP status and its body.  kind: "error" (the error
\* object), "array" (the JSON array [error object, status code]),
\* "completion", "file"; declared: the status code handed to the function
\* that built the error
Answer(status, kind, error, declared) ==
    [status |-> status, kind |-> kind, error |-> error, declared |-> declared]

\* create_error_response(message, error_type, status_code): the pair
create_error_response(error_type, status_code) == <<error_type, status_code>>

\* jsonify(pair), alone or inside make_response: the pair becomes the body,
\* the status is the default one
jsonify(pair) == Answer(200, "array", pair[1], pair[2])

File == Answer(200, "file", "None", 0)
Unanswered == Answer(0, "None", "None", 0)

\* require_api_key: the response of the decorator, Unanswered when it calls
\* the decorated function
require_api_key(auth_header) ==
    IF auth_header = <<>> \/ ~StartsWith(auth_header, <<"Bearer", " ">>)
    THEN jsonify(create_error_response("authentication_error", 401))
    ELSE IF SplitAt(auth_header, " ")[2] \notin api_keys
    THEN jsonify(create_error_response("authentication_error", 401))
    ELSE Unanswered

\* api_server: raise HTTPException(status_code), as http_exception_handler
\* answers it
HTTPException(status_code) ==
    Answer(status_code, "error",
           IF status_code = 401 THEN "authentication_error"
           ELSE IF status_code = 429 THEN "rate_limit_error"
           ELSE IF status_code >= 500 THEN "server_error"
           ELSE "invalid_request_error",
           status_code)

\* api_server.check_auth_header(authorization)
check_auth_header(authorization) ==
    LET
        \* api_server.validate_api_key(api_key)
        validate_api_key(api_key) ==
            IF api_keys = {} \/ <<>> \in api_keys \/ <<"sk-test">> \in api_keys THEN TRUE
            ELSE api_key \in api_keys
    IN
    IF authorization = <<>> THEN HTTPException(401)
    ELSE IF ~StartsWith(authorization, <<"Bearer", " ">>) THEN HTTPException(401)
    ELSE IF From(authorization, 3) = <<"sk-test">> THEN Unanswered
    ELSE IF ~validate_api_key(From(authorization, 3)) THEN HTTPException(401)
    ELSE Unanswered

----------------------------------------------------------------------------
(* The requests *)

\* the clock when the server starts, and the instants it is read at
StartTime == 1700000000

Instants == {StartTime + d : d \in {0, 1, 3601, 86401}}

\* the names generate_unique_filename gives, in the order it gives them
UniqueFilenames == << <<"f1", ".png">>, <<"f2", ".png">> >>

Filenames == {UniqueFilenames[k] : k \in 1..Len(UniqueFilenames)}

KeyConfigs == {{}, {<<"sk-test">>}, {<<"k1">>}}

Authorizations ==
    {<<>>,
     <<"Bearer", " ">>,
     <<"Basic", " ", "k1">>,
     <<"Bearer", " ", "k1">>,
     <<"Bearer", " ", "k2">>,
     <<"Bearer", " ", "sk-test">>,
     <<"Bearer", " ", "k1", " ", "x">>}

\* the request bodies, by what the handlers look at
ChatBodies == {"too_large", "not_json", "empty", "bad_model", "no_user", "ok"}

\* what becomes of the call that renders the image
RenderOutcomes == {"written", "raises", "nothing"}

\* the request and its answer, as response records it
Exchange(endpoint, authorization, filename, token, expiry, ran, answer) ==
    [endpoint |-> endpoint, authorization |-> authorization, filename |-> filename,
     token |-> token, expiry |-> expiry, ran |-> ran,
     status |-> answer.status, kind |-> answer.kind, error |-> answer.error,
     declared |-> answer.declared]

\* the image is rendered to the file name: the file is written now, or the
\* call raises, or it returns and has written nothing
Rendered(authorization, name, outcome, raised) ==
    IF outcome = "raises"
    THEN /\ response' = Exchange("chat", authorization, <<>>, <<>>, <<>>, TRUE, raised)
         /\ UNCHANGED <<files, pending>>
    ELSE /\ files' = IF outcome = "written"
                     THEN files \cup {[name |-> name, mtime |-> now]} ELSE files
         /\ pending' = [active |-> TRUE, name |-> name]
         /\ response' = Exchange("chat", authorization, <<>>, <<>>, <<>>, TRUE, Unanswered)

\* app.chat_completions behind require_api_key, up to the call of
\* generate_image
AppChat(authorization, body, name, outcome) ==
    LET
        \* return jsonify(pair[0]), pair[1]
        jsonify_with_status(pair) == Answer(pair[2], "error", pair[1], pair[2])
    IN
    IF require_api_key(authorization) # Unanswered
    THEN /\ response' = Exchange("chat", authorization, <<>>, <<>>, <<>>, FALSE,
                                 require_api_key(authorization))
         /\ UNCHANGED <<files, pending>>
    ELSE IF body # "ok"
    THEN /\ response' =
                Exchange("chat", authorization, <<>>, <<>>, <<>>, TRUE,
                    CASE body = "too_large" ->
                             jsonify(create_error_response("payload_too_large", 413))
                      [] body = "not_json" ->
                             jsonify(create_error_response("server_error", 500))
                      [] body \in {"empty", "bad_model"} ->
                             jsonify_with_status(
                                 create_error_response("invalid_request_error", 400))
                      [] body = "no_user" ->
                             jsonify(create_error_response("invalid_request_error", 400)))
         /\ UNCHANGED <<files, pending>>
    ELSE Rendered(authorization, name, outcome,
                  jsonify(create_error_response("server_error", 500)))

\* api_server.chat_completions behind check_auth_header, up to the call of
\* render_markdown_to_image
ApiChat(authorization, body, name, outcome) ==
    IF body = "not_json" \/ (check_auth_header(authorization) = Unanswered /\ body = "empty")
    THEN /\ response' = Exchange("chat", authorization, <<>>, <<>>, <<>>, FALSE,
                                 Answer(400, "error", "invalid_request_error", 400))
         /\ UNCHANGED <<files, pending>>
    ELSE IF check_auth_header(authorization) # Unanswered
    THEN /\ response' = Exchange("chat", authorization, <<>>, <<>>, <<>>, FALSE,
                                 check_auth_header(authorization))
         /\ UNCHANGED <<files, pending>>
    ELSE IF body = "no_user"
    THEN /\ response' = Exchange("chat", authorization, <<>>, <<>>, <<>>, TRUE,
                                 HTTPException(400))
         /\ UNCHANGED <<files, pending>>
    ELSE Rendered(authorization, name, outcome, HTTPException(500))

\* POST /v1/chat/completions, until the image is rendered
ChatCompletions ==
    /\ server # "None"
    /\ ~pending.active
    /\ \E k \in 1..Len(UniqueFilenames) :
           /\ \A j \in 1..Len(UniqueFilenames) :
                  UniqueFilenames[j] \in {f.name : f \in files} \cup {r.name : r \in issued}
                      <=> j < k
           /\ \E authorization \in Authorizations, body \in ChatBodies,
                 outcome \in RenderOutcomes :
                  IF server = "app"
                  THEN AppChat(authorization, body, UniqueFilenames[k], outcome)
                  ELSE ApiChat(authorization, body, UniqueFilenames[k], outcome)
    /\ UNCHANGED <<server, api_keys, now, issued, engine_vars>>

\* the rest of the handler: the token is made and the URL is answered
Respond ==
    LET
        \* the handler's own answers
        Completion == Answer(200, "completion", "None", 0)
    IN
    /\ pending.active
    /\ IF server = "app" /\ pending.name \notin {f.name : f \in files}
       THEN /\ response' = Exchange("chat", response.authorization, <<>>, <<>>, <<>>, TRUE,
                                    jsonify(create_error_response("server_error", 500)))
            /\ UNCHANGED issued
       ELSE /\ \E token \in (IF server = "app"
                            THEN {generate_image_token(pending.name).token}
                            ELSE {<<"urlsafe">>}) :
                   issued' = issued \cup {[name |-> pending.name, token |-> token,
                                          expiry |-> now + TOKEN_EXPIRY]}
            /\ response' = Exchange("chat", response.authorization, <<>>, <<>>, <<>>, TRUE,
                                    Completion)
    /\ pending' = NoPending
    /\ UNCHANGED <<server, api_keys, now, files, engine_vars>>

\* app.serve_image(filename) with the query values token and expiry
serve_image(filename, token, expiry) ==
    IF token = <<>> \/ expiry = <<>>
    THEN jsonify(create_error_response("authentication_error", 401))
    ELSE IF ~verify_image_token(filename, token, expiry)
    THEN jsonify(create_error_response("authentication_error", 401))
    ELSE IF filename \notin {f.name : f \in files}
    THEN jsonify(create_error_response("not_found_error", 404))
    ELSE File

\* api_server.get_image(filename, token, expiry)
get_image(filename, token, expiry) ==
    IF token = <<>> \/ expiry = <<>> THEN HTTPException(401)
    ELSE IF ~int(expiry).ok THEN HTTPException(400)
    ELSE IF int(expiry).value < now THEN HTTPException(401)
    ELSE IF filename \notin {f.name : f \in files} THEN HTTPException(404)
    ELSE File

\* the tokens and the expiry values a client can present
PresentedTokens == {r.token : r \in issued} \cup {<<"junk">>, <<>>}

PresentedExpiries ==
    {Str(r.expiry) : r \in issued} \cup {Str(StartTime + 90000), <<"x">>}

\* GET /v1/images/<filename>?token=..&expiry=..
GetImage ==
    /\ server # "None"
    /\ ~pending.active
    /\ \E filename \in Filenames,
          token \in PresentedTokens, expiry \in PresentedExpiries :
           response' = Exchange("image", <<>>, filename, token, expiry, TRUE,
                           IF server = "app" THEN serve_image(filename, token, expiry)
                           ELSE get_image(filename, token, expiry))
    /\ UNCHANGED <<server, api_keys, now, files, issued, pending, engine_vars>>

\* cleanup_old_images(): the hourly job of app, the background task of
\* api_server
CleanupOldImages ==
    LET
        \* the age after which cleanup_old_images removes a file
        MaxAge == IF server = "app" THEN 86400 ELSE 3600
    IN
    /\ server # "None"
    /\ files' = {f \in files : ~(now - f.mtime > MaxAge)}
    /\ UNCHANGED <<server, api_keys, now, issued, pending, response, engine_vars>>

\* time passes
Tick ==
    /\ server # "None"
    /\ \E t \in Instants : t > now /\ now' = t
    /\ response' = IF pending.active THEN response ELSE NoResponse
    /\ UNCHANGED <<server, api_keys, files, issued, pending, engine_vars>>

ServerInit ==
    /\ parser = NewParser
    /\ entry = NewParser
    /\ text = <<>>
    /\ lines = <<>>
    /\ i = 0
    /\ segments = <<>>
    /\ result = <<>>
    /\ pc = "idle"
    /\ NoImage
    /\ server \in {"app", "api_server"}
    /\ api_keys \in KeyConfigs
    /\ now = StartTime
    /\ files = {}
    /\ issued = {}
    /\ pending = NoPending
    /\ response = NoResponse

ServerNext ==
    \/ ChatCompletions
    \/ Respond
    \/ GetImage
    \/ CleanupOldImages
    \/ Tick

SpecServer == ServerInit /\ [][ServerNext]_vars

----------------------------------------------------------------------------
(* Properties of the API servers *)

\* the header is "Bearer <key>" for a key of the configured list
HasConfiguredKey(authorization) ==
    \E key \in api_keys : authorization = <<"Bearer", " ">> \o key

\* a chat request whose header has no configured key leaves the folder as it is
KeylessRequestWritesNothing ==
    (response'.endpoint = "chat" /\ response' # response
        /\ ~HasConfiguredKey(response'.authorization)) => files' = files

\* C22: on both servers the chat handler runs, and an image is generated, only
\* for a request whose Authorization header is "Bearer <key>" with <key> in
\* API_KEYS; any other request gets an authentication error and generates
\* nothing.
C22_HandlerRunsOnlyWithConfiguredKey ==
    /\ [](response.endpoint = "chat" =>
              /\ response.ran => HasConfiguredKey(response.authorization)
              /\ ~HasConfiguredKey(response.authorization) =>
                     response.error = "authentication_error")
    /\ [][KeylessRequestWritesNothing]_vars

\* what holds of app alone: the handler runs only when the header starts with
\* "Bearer " and the word after the first space is a configured key
C22_AppRunsOnlyWithKeyAsSecondWord ==
    (server = "app" /\ response.endpoint = "chat" /\ response.ran) =>
        /\ StartsWith(response.authorization, <<"Bearer", " ">>)
        /\ SplitAt(response.authorization, " ")[2] \in api_keys

\* the file is answered to a request that presents the token issued for this
\* file with this expiry value, and the expiry is not passed
IssuedTokenPresented ==
    \E r \in issued :
        /\ r.name = response.filename
        /\ r.token = response.token
        /\ Str(r.expiry) = response.expiry
        /\ now <= r.expiry

\* C23: GET /v1/images/<filename> answers the file only when the token is the
\* one issued for that file name and that expiry value and the expiry is not
\* passed; a token of another file, a changed expiry, an arbitrary token or an
\* expiry that is no integer never gets the file.
C23_FileOnlyForIssuedToken ==
    (response.endpoint = "image" /\ response.kind = "file") => IssuedTokenPresented

\* the same of app alone, whose serve_image verifies the token
C23_AppFileOnlyForIssuedToken ==
    (server = "app" /\ response.endpoint = "image" /\ response.kind = "file")
        => IssuedTokenPresented

\* app has answered a file
C23_AppWitness ==
    /\ server = "app"
    /\ response.endpoint = "image"
    /\ response.kind = "file"
    /\ Cardinality(issued) = 2

\* C27: every error response of the Flask server has the HTTP status handed
\* to create_error_response (401, 400, 413, 404, 500) and the error object as
\* its body; no error is answered with status 200.
C27_ErrorStatusIsDeclared ==
    (server = "app" /\ response.error # "None") =>
        /\ response.status = response.declared
        /\ response.kind = "error"
        /\ response.status # 200

\* what holds of app: the errors of validate_chat_request have their status,
\* every other error is the array with status 200
C27_OnlyValidationErrorsHaveTheirStatus ==
    (server = "app" /\ response.error # "None") =>
        IF response.kind = "error"
        THEN response.status = 400 /\ response.error = "invalid_request_error"
        ELSE response.kind = "array" /\ response.status = 200

\* the files a step removes are those of URLs whose expiry is passed
RemovedAfterExpiry ==
    \A f \in files \ files' : \A r \in issued : r.name = f.name => now > r.expiry

\* C28: with the default configuration of either server, whatever the order
\* of image generation, token issue and cleanup runs, cleanup_old_images
\* removes a file only after the expiry of the URL issued for it.
C28_NoCleanupBeforeExpiry == [][RemovedAfterExpiry]_vars

\* the same for the URLs issued less than 23 hours after the file was written
RemovedAfterPromptExpiry ==
    \A f \in files \ files' : \A r \in issued :
        (r.name = f.name /\ r.expiry - f.mtime < 86400) => now > r.expiry

\* what holds of app, whose cleanup waits 24 hours
C28_AppNoCleanupBeforePromptExpiry == [][server = "app" => RemovedAfterPromptExpiry]_vars

\* ---------------------------------------------------------------------------
\* download_image_with_timeout on its own
\* ---------------------------------------------------------------------------

MaxAnswers == 4

\* what a server can answer to one request
Answers == {"image", "junk", "status", "exception"}

\* a call of download_image_with_timeout is about to be made
DownloadInit ==
    /\ parser = NewParser
    /\ entry = NewParser
    /\ text = <<>>
    /\ lines = <<>>
    /\ i = 0
    /\ segments = <<>>
    /\ result = <<>>
    /\ pc = "download"
    /\ title_image = "None"
    /\ title_height = 0
    /\ image_pasted = FALSE
    /\ requests = <<>>
    /\ is_dark_theme = FALSE
    /\ processed_lines = <<>>
    /\ content_height = 0
    /\ rect_height = 0
    /\ start_y = 0
    /\ current_y = 0
    /\ drawn = <<>>
    /\ NoServer
    /\ \E answers \in [1..MaxAnswers -> Answers], timeout \in {10, 15},
          max_retries \in 0..MaxAnswers :
           download = [answers |-> answers, timeout |-> timeout,
                       max_retries |-> max_retries, returned |-> "running",
                       requests |-> <<>>]

\* the call runs to its return
Download ==
    /\ pc = "download"
    /\ LET d == download_image_with_timeout(download.answers, download.timeout,
                                            download.max_retries)
       IN download' = [download EXCEPT
                          !.returned = IF d.image THEN "image" ELSE "None",
                          !.requests = d.requests]
    /\ pc' = "done"
    /\ UNCHANGED <<server_vars, parser, entry, text, lines, i, segments, result,
                   title_image, title_height, image_pasted, requests,
                   is_dark_theme, processed_lines, content_height, rect_height,
                   start_y, current_y, drawn>>

SpecDownload == DownloadInit /\ [][Download]_vars

\* the requests among the first max_retries that get a 200 response
Settled ==
    {j \in 1..download.max_retries : download.answers[j] \in {"image", "junk"}}

\* C26: download_image_with_timeout makes at most max_retries requests, each
\* with the timeout; it stops at the first 200 response, returning the image
\* if the content is one and None if not, and returns None after exactly
\* max_retries requests when every one of them fails.
C26_DownloadStopsAtFirstAnswerOrMaxRetries ==
    download.returned \in {"image", "None"} =>
        LET n == Len(download.requests) IN
        /\ n <= download.max_retries
        /\ \A j \in 1..n : download.requests[j] = download.timeout
        /\ IF Settled = {}
           THEN download.returned = "None" /\ n = download.max_retries
           ELSE /\ n = Min(Settled)
                /\ download.returned = "image" <=> download.answers[n] = "image"

\* two failures, then an image at the third request of four allowed
C26_ImageAtThirdRequest ==
    /\ download.answers = <<"status", "exception", "image", "junk">>
    /\ download.max_retries = 4
    /\ download.returned = "image"
    /\ download.requests = <<15, 15, 15>>

\* a 200 response that is no image ends the call at once
C26_JunkEndsTheCall ==
    /\ download.answers = <<"status", "junk", "image", "image">>
    /\ download.max_retries = 4
    /\ download.returned = "None"
    /\ Len(download.requests) = 2

\* every request fails
C26_AllAttemptsFail ==
    /\ download.answers = <<"status", "exception", "exception", "image">>
    /\ download.max_retries = 3
    /\ download.returned = "None"
    /\ Len(download.requests) = 3

\* ---------------------------------------------------------------------------
\* the lines split_text_to_lines has made of each segment
\* ---------------------------------------------------------------------------

\* the number of segments generate_image has split so far
SplitSoFar ==
    IF pc = "start" THEN 0 ELSE IF pc = "split" THEN i ELSE Len(segments)

\* the number of lines the first k segments have given
RECURSIVE LinesBefore(_)
LinesBefore(k) ==
    IF k = 0 THEN 0 ELSE LinesBefore(k - 1) + Len(SegmentLines(segments[k]))

\* the lines in processed_lines that segment k has given
LinesOf(k) == SubSeq(processed_lines, LinesBefore(k - 1) + 1, LinesBefore(k))

\* a segment the word loop for plain text is run on
IsWrappedPlain(seg) ==
    /\ ~IsBlank(seg.text)
    /\ seg.text # <<"\n">>
    /\ ~seg.has_original_segments
    /\ ~seg.style.is_code

\* the width measure_text gives for the text t in the font of a segment
MeasuredWidth(t, seg) == measure_text(t, get_font(seg.style))[1]

\* C24: wrapping is greedy first-fit: for two consecutive lines made of one
\* non-code segment, the earlier line extended by the first token of the
\* later line measures more than the available width, so no token that still
\* fits on a line is moved to the next.
C24_GreedyFirstFit ==
    \A k \in 1..SplitSoFar :
        IsWrappedPlain(segments[k]) =>
            \A j \in 1..(Len(LinesOf(k)) - 1) :
                MeasuredWidth(LinesOf(k)[j].text
                                  \o PlainWords(LinesOf(k)[j + 1].text, <<>>)[1],
                              segments[k])
                    > MaxContentWidth - segments[k].style.indent

\* twenty ideographs have been split into a line of eighteen and a line of two
C24_EighteenIdeographsOnFirstLine ==
    \E k \in 1..SplitSoFar :
        /\ segments[k].text = Repeated(<<"U+4E2D">>, 20)
        /\ Len(LinesOf(k)) = 2
        /\ LinesOf(k)[1].text = Repeated(<<"U+4E2D">>, 18)
        /\ LinesOf(k)[2].text = Repeated(<<"U+4E2D">>, 2)

\* the height measure_text gives for the text t in the font of a segment
MeasuredHeight(t, seg) == measure_text(t, get_font(seg.style))[2]

\* C25: the height of every line made of a non-code segment is the largest
\* glyph height among the tokens on that line, whatever stands on the
\* earlier lines of the segment and whatever token went to the next line.
C25_LineHeightIsOfItsOwnTokens ==
    \A k \in 1..SplitSoFar :
        IsWrappedPlain(segments[k]) =>
            \A j \in 1..Len(LinesOf(k)) :
                LinesOf(k)[j].height = MeasuredHeight(LinesOf(k)[j].text, segments[k])

\* the height of every line of a plain segment is the largest glyph height
\* among the tokens measured up to the end of that line, the token that did
\* not fit any more included
C25_LineHeightIsOfAllTokensMeasured ==
    \A k \in 1..SplitSoFar :
        IsWrappedPlain(segments[k]) =>
            \A j \in 1..Len(LinesOf(k)) :
                LinesOf(k)[j].height =
                    MeasuredHeight(
                        Concat([n \in 1..j |-> LinesOf(k)[n].text])
                            \o (IF j < Len(LinesOf(k))
                                THEN PlainWords(LinesOf(k)[j + 1].text, <<>>)[1]
                                ELSE <<>>),
                        segments[k])

\* the Latin word on the second line has the height of the ideographs on the
\* first line
C25_HeightOfEarlierLine ==
    \E k \in 1..SplitSoFar :
        /\ segments[k].text = IdeographsThenWord
        /\ Len(LinesOf(k)) = 2
        /\ LinesOf(k)[2].text = <<"a", "a", "a", "a">>
        /\ LinesOf(k)[2].height = 30

\* the Latin word on the first line has the height of the ideograph that went
\* to the second line
C25_HeightOfOverflowingToken ==
    \E k \in 1..SplitSoFar :
        /\ segments[k].text = WordThenIdeograph
        /\ Len(LinesOf(k)) = 2
        /\ LinesOf(k)[1].text = Repeated(<<"a">>, 37)
        /\ LinesOf(k)[1].height = 30

\* a segment split_text_to_lines cuts into lines: not composite, its text not
\* blank
IsWrapped(seg) ==
    /\ ~IsBlank(seg.text)
    /\ ~seg.has_original_segments

\* the texts of the lines pl, one after the other
TextOfLines(pl) == Concat([n \in 1..Len(pl) |-> pl[n].text])

\* the lines pl are the source lines src of a code segment in their order,
\* each given by one line or more
RECURSIVE CoversSourceLines(_, _)
CoversSourceLines(pl, src) ==
    IF src = <<>> THEN pl = <<>>
    ELSE \E n \in 1..Len(pl) :
             /\ TextOfLines(SubSeq(pl, 1, n)) = Head(src)
             /\ CoversSourceLines(SubSeq(pl, n + 1, Len(pl)), Tail(src))

\* C30: wrapping is lossless and keeps the order: the texts of the lines made
\* of a non-composite segment with non-blank text, one after the other, are
\* the text of the segment, for a code segment with the newlines the text
\* was split at; no character is dropped, doubled or moved, white space at
\* a line break included.
C30_WrappingIsLossless ==
    \A k \in 1..SplitSoFar :
        IsWrapped(segments[k]) =>
            IF segments[k].style.is_code
            THEN CoversSourceLines(LinesOf(k), SplitAt(Chars(segments[k].text), "\n"))
            ELSE TextOfLines(LinesOf(k)) = Chars(segments[k].text)

\* the space that did not fit on the first line begins the second
C30_SpaceBeginsSecondLine ==
    \E k \in 1..SplitSoFar :
        /\ segments[k].text = WordThenSpace
        /\ Len(LinesOf(k)) = 2
        /\ LinesOf(k)[1].text = Repeated(<<"a">>, 37)
        /\ LinesOf(k)[2].text = <<" ", "b">>

\* a code segment of two source lines, the second empty
C30_CodeWithEmptyLine ==
    \E k \in 1..SplitSoFar :
        /\ segments[k].style.is_code
        /\ Len(LinesOf(k)) = 2
        /\ LinesOf(k)[1].text = <<"a", "&", "l", "t", ";", "b">>
        /\ LinesOf(k)[2].text = <<>>

\* a line of code that is cut in two
C30_CodeLineCut ==
    \E k \in 1..SplitSoFar :
        /\ segments[k].style.is_code
        /\ Len(SplitAt(Chars(segments[k].text), "\n")) = 1
        /\ Len(LinesOf(k)) = 2

\* ---------------------------------------------------------------------------
\* in_code_block during parse
\* ---------------------------------------------------------------------------

\* the main loop is about to examine lines[i]
ExaminesLine == pc = "loop" /\ i < Len(lines)

\* the line the main loop is about to examine is a fence line
ExaminesFence == ExaminesLine /\ StartsWith(RStrip(lines[i + 1]), Fence)

\* the lines of ls that start with three backticks
FenceLines(ls) == {j \in 1..Len(ls) : StartsWith(ls[j], Fence)}

\* the text ends inside a fence that is not closed: every second fence line
\* closes the block the one before it has opened
EndsInsideFence(ls) == Cardinality(FenceLines(ls)) % 2 = 1

\* a fence line that is examined opens a block: one code segment is appended
\* and the loop goes on behind the closing fence, or behind the last line
\* when there is none
FenceOpensBlock ==
    ExaminesFence =>
        /\ Len(segments') = Len(segments) + 1
        /\ segments'[Len(segments')].style.is_code
        /\ i' = FirstFenceAfter(lines, i + 1)

\* C29: during a parse call in_code_block is False every time the main loop
\* examines a line, so parse_line is never called with in_code_block True; a
\* line that starts with three backticks always opens a block, the branch
\* that ends a block is never taken; and in_code_block is True when parse
\* returns if and only if the text ended inside a fence that is not closed.
C29_NoLineExaminedInsideCodeBlock ==
    /\ [](ExaminesLine => ~parser.in_code_block)
    /\ [][FenceOpensBlock]_vars
    /\ [](pc = "done" => (parser.in_code_block <=> EndsInsideFence(lines)))

\* parse has returned for a text whose fence is not closed
C29_ReturnedInsideFence ==
    /\ pc = "done"
    /\ lines = <<Fence, <<"a">> >>
    /\ parser.in_code_block
    /\ Len(result) = 2

\* the loop examines the line behind a closed block
C29_ExaminesLineBehindBlock ==
    /\ ExaminesLine
    /\ lines = <<Fence, Fence, <<"a">> >>
    /\ i = 2
    /\ ~parser.in_code_block

====
